---- MODULE Spec2Model ----
(***************************************************************************)
(* Food-cost inventory and price ledger (database.py, server.py,           *)
(* init_db.py): the SQLite tables, the request handlers that read and      *)
(* write them, the migration runner and the CSV export/import.             *)
(*                                                                         *)
(* Text is a sequence of characters; a character is an atom such as "a".   *)
(* REAL columns are fixed point, in thousandths: 1000 is 1.0, 125 is       *)
(* 0.125.  The values the model draws are binary fractions (or have no     *)
(* tie in their quotients), so that every float division, round() and      *)
(* "%.2f" below is exact on them.                                          *)
(***************************************************************************)
EXTENDS Integers, Sequences, FiniteSets, TLC

\* SQL NULL / Python None in a numeric column.
NULL == -1

----------------------------------------------------------------------------
(* Text *)

Upper == {"A", "C", "E", "F", "T", "Eacute"}

\* SQLite's built-in LOWER(): folds the ASCII letters only.
SqlLowerChar(c) ==
    CASE c = "A" -> "a" [] c = "C" -> "c" [] c = "E" -> "e"
      [] c = "F" -> "f" [] c = "T" -> "t" [] OTHER -> c

\* Python's str.lower(): folds every cased letter.
PyLowerChar(c) == IF c = "Eacute" THEN "eacute" ELSE SqlLowerChar(c)

SqlLower(s) == [i \in 1..Len(s) |-> SqlLowerChar(s[i])]

PyLower(s) == [i \in 1..Len(s) |-> PyLowerChar(s[i])]

Whitespace == {" "}

RECURSIVE LStrip(_)
LStrip(s) == IF s # <<>> /\ Head(s) \in Whitespace THEN LStrip(Tail(s)) ELSE s

RECURSIVE RStrip(_)
RStrip(s) ==
    IF s # <<>> /\ s[Len(s)] \in Whitespace
    THEN RStrip(SubSeq(s, 1, Len(s) - 1)) ELSE s

\* str.strip()
Strip(s) == RStrip(LStrip(s))

\* sep.join(parts)
RECURSIVE Join(_, _)
Join(parts, sep) ==
    IF parts = <<>> THEN <<>>
    ELSE IF Len(parts) = 1 THEN parts[1]
    ELSE parts[1] \o sep \o Join(Tail(parts), sep)

\* s.replace(a, b) for single characters
ReplaceChar(s, a, b) == [i \in 1..Len(s) |-> IF s[i] = a THEN b ELSE s[i]]

\* s.split(sep) for a single-character separator: always at least one part
RECURSIVE SplitAcc(_, _, _)
SplitAcc(s, sep, cur) ==
    IF s = <<>> THEN <<cur>>
    ELSE IF Head(s) = sep THEN <<cur>> \o SplitAcc(Tail(s), sep, <<>>)
    ELSE SplitAcc(Tail(s), sep, Append(cur, Head(s)))

Split(s, sep) == SplitAcc(s, sep, <<>>)

\* any(c in s for c in chars)
ContainsAny(s, chars) == \E i \in 1..Len(s) : s[i] \in chars

RECURSIVE DoubleQuotes(_)
DoubleQuotes(s) ==
    IF s = <<>> THEN <<>>
    ELSE IF Head(s) = "\"" THEN <<"\"", "\"">> \o DoubleQuotes(Tail(s))
    ELSE <<Head(s)>> \o DoubleQuotes(Tail(s))

\* server.py escape_csv
escape_csv(s) ==
    IF ContainsAny(s, {",", "\"", "\n"})
    THEN <<"\"">> \o DoubleQuotes(s) \o <<"\"">>
    ELSE s

(* csv.reader on one record (excel dialect, not strict): the fields of a   *)
(* line.  mode "start" is the start of a field, "plain" inside an unquoted *)
(* field, "quoted" inside quotes, "endq" just after a quote met in quotes. *)
RECURSIVE CsvFields(_, _, _, _)
CsvFields(s, mode, cur, done) ==
    IF s = <<>> THEN Append(done, cur)
    ELSE LET c == Head(s)
             r == Tail(s)
         IN  CASE mode = "quoted" ->
                    IF c = "\"" THEN CsvFields(r, "endq", cur, done)
                    ELSE CsvFields(r, "quoted", Append(cur, c), done)
               [] mode = "endq" ->
                    IF c = "\"" THEN CsvFields(r, "quoted", Append(cur, c), done)
                    ELSE IF c = "," THEN CsvFields(r, "start", <<>>, Append(done, cur))
                    ELSE CsvFields(r, "plain", Append(cur, c), done)
               [] mode = "start" ->
                    IF c = "\"" THEN CsvFields(r, "quoted", cur, done)
                    ELSE IF c = "," THEN CsvFields(r, "start", <<>>, Append(done, cur))
                    ELSE CsvFields(r, "plain", Append(cur, c), done)
               [] OTHER ->
                    IF c = "," THEN CsvFields(r, "start", <<>>, Append(done, cur))
                    ELSE CsvFields(r, "plain", Append(cur, c), done)

CsvParseLine(line) == CsvFields(line, "start", <<>>, <<>>)

----------------------------------------------------------------------------
(* Numbers *)

\* round half to even of a / b, for a >= 0 and b > 0
RoundHalfEven(a, b) ==
    LET q == a \div b
        r == a % b
    IN  IF 2 * r < b THEN q
        ELSE IF 2 * r > b THEN q + 1
        ELSE IF q % 2 = 0 THEN q ELSE q + 1

\* Python round(price / units, 2), on thousandths
Round2Div(price, units) == 10 * RoundHalfEven(price * 1000, units * 10)

\* Python `x or 1` on a number: None and 0 give 1
Or1(x) == IF x = NULL \/ x = 0 THEN 1000 ELSE x

\* Python `x or 0`
Or0(x) == IF x = NULL THEN 0 ELSE x

Digits == <<"0", "1", "2", "3", "4", "5", "6", "7", "8", "9">>

IsDigit(c) == \E d \in 1..10 : Digits[d] = c

DigitVal(c) == (CHOOSE d \in 1..10 : Digits[d] = c) - 1

RECURSIVE IntToStr(_)
IntToStr(n) ==
    IF n < 10 THEN <<Digits[n + 1]>>
    ELSE Append(IntToStr(n \div 10), Digits[(n % 10) + 1])

RECURSIVE StrToInt(_)
StrToInt(s) ==
    IF s = <<>> THEN 0
    ELSE 10 * StrToInt(SubSeq(s, 1, Len(s) - 1)) + DigitVal(s[Len(s)])

\* f"{x:.2f}": two decimals, the third rounded away
FormatFixed2(x) ==
    LET cents == RoundHalfEven(x, 10)
    IN  IntToStr(cents \div 100) \o <<".">>
          \o <<Digits[((cents \div 10) % 10) + 1], Digits[(cents % 10) + 1]>>

\* str(x) of a float: the shortest decimal that reads back as x
PyStrFloat(x) ==
    LET whole == IntToStr(x \div 1000)
        f == x % 1000
        frac == IF f % 100 = 0 THEN <<Digits[(f \div 100) + 1]>>
                ELSE IF f % 10 = 0
                     THEN <<Digits[(f \div 100) + 1], Digits[((f \div 10) % 10) + 1]>>
                ELSE <<Digits[(f \div 100) + 1], Digits[((f \div 10) % 10) + 1],
                       Digits[(f % 10) + 1]>>
    IN  whole \o <<".">> \o frac

AllDigits(s) == \A i \in 1..Len(s) : IsDigit(s[i])

\* float(s) accepts (of the numerals modelled) digits with an optional
\* fraction of up to three digits, blanks around them allowed
IsNumeral(s) ==
    LET t == Strip(s)
        p == Split(t, ".")
    IN  /\ Len(p) \in {1, 2}
        /\ AllDigits(p[1])
        /\ Len(p) = 2 => AllDigits(p[2]) /\ Len(p[2]) <= 3
        /\ Len(p[1]) + (IF Len(p) = 2 THEN Len(p[2]) ELSE 0) > 0

\* float(s) of a numeral, in thousandths
ParseFloat(s) ==
    LET t == Strip(s)
        p == Split(t, ".")
        f == IF Len(p) = 2 THEN p[2] ELSE <<>>
        pad == f \o SubSeq(<<"0", "0", "0">>, 1, 3 - Len(f))
    IN  1000 * StrToInt(p[1]) + StrToInt(pad)

----------------------------------------------------------------------------
(* The database: one record, a field per table.                            *)
(*   inventory_items, price_items   id -> row (TEXT PRIMARY KEY)           *)
(*   inventory_counts, price_history  rows in rowid order (AUTOINCREMENT)  *)
(*   suppliers, stores, locations   rowid -> name, with the table's        *)
(*                                  sqlite_sequence value beside it        *)
(*   price_item_locations           set of <<price_item_id, location_id>>  *)
(*   columns                        the migrated columns the file has      *)
(* Ids: "price-<ms>" and "custom-<ms>" are the millisecond <ms>; the ids   *)
(* of seeded rows are 101, 102, ...                                        *)

VARIABLES db, clock, last, imp, edits

vars == <<db, clock, last, imp, edits>>

\* SQL NULL in a TEXT column
NoText == <<"<NULL>">>

AllColumns ==
    {"inventory_items.location", "inventory_counts.store", "inventory_counts.cost",
     "inventory_items.archived", "price_items.archived"}

\* The tables as the CREATE TABLE IF NOT EXISTS statements make them.
EmptyTables ==
    [inventory_items |-> <<>>, inventory_counts |-> <<>>,
     price_items |-> <<>>, price_history |-> <<>>,
     suppliers |-> <<>>, supplier_seq |-> 0,
     stores |-> <<>>, store_seq |-> 0,
     locations |-> <<>>, location_seq |-> 0,
     price_item_locations |-> {},
     columns |-> {"inventory_items.location", "inventory_counts.store"}]

\* f with key k set to v (INSERT, or UPDATE of the whole row)
Put(f, k, v) == [x \in DOMAIN f \cup {k} |-> IF x = k THEN v ELSE f[x]]

\* f without key k (DELETE)
Drop(f, k) == [x \in DOMAIN f \ {k} |-> f[x]]

\* The rows of a table keyed by number, by ascending key
RECURSIVE KeysAscending(_)
KeysAscending(S) ==
    IF S = {} THEN <<>>
    ELSE LET m == CHOOSE x \in S : \A y \in S : x <= y
         IN  <<m>> \o KeysAscending(S \ {m})

\* SELECT id FROM <names table> WHERE name = ?  (name is UNIQUE)
IdOfName(table, name) ==
    IF \E i \in DOMAIN table : table[i] = name
    THEN CHOOSE i \in DOMAIN table : table[i] = name
    ELSE NULL

----------------------------------------------------------------------------
(* Suppliers, stores, locations (database.py): three tables of the same    *)
(* shape, id INTEGER PRIMARY KEY AUTOINCREMENT and name TEXT NOT NULL       *)
(* UNIQUE, and for each the same three functions.                          *)

\* The field that holds the table's sqlite_sequence value
SeqOf(table) ==
    CASE table = "suppliers" -> "supplier_seq"
      [] table = "stores" -> "store_seq"
      [] OTHER -> "location_seq"

\* INSERT INTO <table> (name, created_at): ret is cursor.lastrowid, NULL
\* where the function returns None (IntegrityError on the UNIQUE name)
InsertEntry(d, table, name) ==
    IF IdOfName(d[table], name) # NULL THEN [db |-> d, ret |-> NULL]
    ELSE LET id == d[SeqOf(table)] + 1
         IN  [db |-> [d EXCEPT ![table] = Put(@, id, name), ![SeqOf(table)] = id],
              ret |-> id]

\* UPDATE <table> SET name = ? WHERE id = ?: ret is the id, NULL where the
\* function returns None (no row updated, or IntegrityError)
UpdateEntry(d, table, id, name) ==
    IF id \notin DOMAIN d[table] THEN [db |-> d, ret |-> NULL]
    ELSE IF \E j \in DOMAIN d[table] \ {id} : d[table][j] = name
    THEN [db |-> d, ret |-> NULL]
    ELSE [db |-> [d EXCEPT ![table] = Put(@, id, name)], ret |-> id]

\* DELETE FROM <table> WHERE id = ?: ret is rowcount > 0
DeleteEntry(d, table, id) ==
    [db |-> [d EXCEPT ![table] = Drop(@, id)], ret |-> id \in DOMAIN d[table]]

add_supplier(d, name) == InsertEntry(d, "suppliers", name)

update_supplier(d, supplier_id, name) == UpdateEntry(d, "suppliers", supplier_id, name)

delete_supplier(d, supplier_id) == DeleteEntry(d, "suppliers", supplier_id)

add_store(d, name) == InsertEntry(d, "stores", name)

update_store(d, store_id, name) == UpdateEntry(d, "stores", store_id, name)

delete_store(d, store_id) == DeleteEntry(d, "stores", store_id)

add_location(d, name) == InsertEntry(d, "locations", name)

update_location(d, location_id, name) == UpdateEntry(d, "locations", location_id, name)

delete_location(d, location_id) == DeleteEntry(d, "locations", location_id)

----------------------------------------------------------------------------
(* Price item locations *)

\* database.py get_price_item_locations: the names, as a set
get_price_item_locations(d, price_item_id) ==
    {d.locations[p[2]] :
        p \in {q \in d.price_item_locations :
                  q[1] = price_item_id /\ q[2] \in DOMAIN d.locations}}

\* The loop of set_price_item_locations over the names not yet handled.
RECURSIVE AddLocations(_, _, _)
AddLocations(d, price_item_id, names) ==
    IF names = <<>> THEN d
    ELSE IF Head(names) = <<>> THEN AddLocations(d, price_item_id, Tail(names))
    ELSE LET found == IdOfName(d.locations, Head(names))
             location_id == IF found # NULL THEN found ELSE d.location_seq + 1
             d1 == IF found # NULL THEN d
                   ELSE [d EXCEPT !.locations = Put(@, location_id, Head(names)),
                                  !.location_seq = location_id]
             d2 == [d1 EXCEPT !.price_item_locations =
                                  @ \cup {<<price_item_id, location_id>>}]
         IN  AddLocations(d2, price_item_id, Tail(names))

\* A set_price_item_locations with no DELETE of the existing rows
set_price_item_locations_add(d, price_item_id, location_names) ==
    AddLocations(d, price_item_id, location_names)

\* database.py set_price_item_locations
set_price_item_locations(d, price_item_id, location_names) ==
    AddLocations(
        [d EXCEPT !.price_item_locations = {q \in @ : q[1] # price_item_id}],
        price_item_id, location_names)

----------------------------------------------------------------------------
(* Price functions (database.py).  Each gives [db, ret]: the database      *)
(* after the call and what the call returns (or the exception it raises).  *)

\* The first row of price_history for (item_id, month), 0 if none
HistoryRow(d, item_id, month) ==
    LET hits == {i \in 1..Len(d.price_history) :
                    /\ d.price_history[i].price_item_id = item_id
                    /\ d.price_history[i].month = month}
    IN  IF hits = {} THEN 0 ELSE CHOOSE i \in hits : \A j \in hits : i <= j

\* round(price / (units_per_inv or 1), 2)
PerUnitCost(price, units_per_inv) == Round2Div(price, Or1(units_per_inv))

\* An update_price with no "if not row: return None"
update_price_unchecked(d, item_id, month, price) ==
    LET existing == HistoryRow(d, item_id, month)
        known == item_id \in DOMAIN d.price_items
        d1 == IF known
              THEN [d EXCEPT !.price_items[item_id].current_price = price,
                             !.price_items[item_id].per_unit_cost =
                                 PerUnitCost(price, d.price_items[item_id].units_per_inv)]
              ELSE d
        d2 == IF existing # 0
              THEN [d1 EXCEPT !.price_history[existing].price = price]
              ELSE [d1 EXCEPT !.price_history =
                       Append(@, [price_item_id |-> item_id, month |-> month,
                                  price |-> price])]
    IN  [db |-> d2, ret |-> known]

update_price(d, item_id, month, price) ==
    IF item_id \notin DOMAIN d.price_items THEN [db |-> d, ret |-> FALSE]
    ELSE LET row == d.price_items[item_id]
             per_unit_cost == PerUnitCost(price, row.units_per_inv)
             existing == HistoryRow(d, item_id, month)
             d1 == [d EXCEPT !.price_items[item_id].current_price = price,
                             !.price_items[item_id].per_unit_cost = per_unit_cost]
             d2 == IF existing # 0
                   THEN [d1 EXCEPT !.price_history[existing].price = price]
                   ELSE [d1 EXCEPT !.price_history =
                            Append(@, [price_item_id |-> item_id, month |-> month,
                                       price |-> price])]
         IN  [db |-> d2, ret |-> TRUE]

\* database.py update_price from its UPDATE on, with the units_per_inv its
\* SELECT gave: the SELECT runs outside the transaction the UPDATE opens.
update_price_write(d, item_id, month, price, units_per_inv) ==
    LET per_unit_cost == PerUnitCost(price, units_per_inv)
        existing == HistoryRow(d, item_id, month)
        d1 == IF item_id \in DOMAIN d.price_items
              THEN [d EXCEPT !.price_items[item_id].current_price = price,
                             !.price_items[item_id].per_unit_cost = per_unit_cost]
              ELSE d
    IN  IF existing # 0
        THEN [d1 EXCEPT !.price_history[existing].price = price]
        ELSE [d1 EXCEPT !.price_history =
                 Append(@, [price_item_id |-> item_id, month |-> month,
                            price |-> price])]

\* locations = data.get('locations', []); the single 'location' when that is empty
LocationsOf(data) ==
    IF data.locations = <<>> /\ data.location # <<>> THEN <<data.location>>
    ELSE data.locations

\* A row whose per-unit cost divides by max(units_per_inv, 1) instead
PriceRowMaxUnits(data, archived) ==
    LET units_per_inv == Or1(data.units_per_inv)
        current_price == Or0(data.current_price)
    IN  [location |-> Join(LocationsOf(data), <<",", " ">>),
         supplier |-> data.supplier, item |-> data.item,
         purchase_unit |-> data.purchase_unit,
         units_per_inv |-> units_per_inv, current_price |-> current_price,
         per_unit_cost |-> Round2Div(current_price,
                                     IF units_per_inv > 1000 THEN units_per_inv ELSE 1000),
         archived |-> archived]

\* The price_items row add_price_item and update_price_item write.
PriceRow(data, archived) ==
    LET units_per_inv == Or1(data.units_per_inv)
        current_price == Or0(data.current_price)
    IN  [location |-> Join(LocationsOf(data), <<",", " ">>),
         supplier |-> data.supplier, item |-> data.item,
         purchase_unit |-> data.purchase_unit,
         units_per_inv |-> units_per_inv, current_price |-> current_price,
         per_unit_cost |-> Round2Div(current_price, units_per_inv),
         archived |-> archived]

\* item_id is "price-<now in ms>"; an id already stored fails the PRIMARY KEY
add_price_item(d, data, item_id) ==
    IF item_id \in DOMAIN d.price_items
    THEN [db |-> d, ret |-> "IntegrityError"]
    ELSE LET row == PriceRow(data, 0)
             d1 == [d EXCEPT !.price_items = Put(@, item_id, row)]
             d2 == IF row.current_price > 0 /\ data.month # <<>>
                   THEN [d1 EXCEPT !.price_history =
                            Append(@, [price_item_id |-> item_id, month |-> data.month,
                                       price |-> row.current_price])]
                   ELSE d1
             d3 == IF LocationsOf(data) # <<>>
                   THEN set_price_item_locations(d2, item_id, LocationsOf(data))
                   ELSE d2
         IN  [db |-> d3, ret |-> "ok"]

update_price_item(d, item_id, data) ==
    IF item_id \notin DOMAIN d.price_items THEN [db |-> d, ret |-> FALSE]
    ELSE LET row == PriceRow(data, d.price_items[item_id].archived)
             d1 == [d EXCEPT !.price_items[item_id] = row]
         IN  [db |-> set_price_item_locations(d1, item_id, LocationsOf(data)),
              ret |-> TRUE]

delete_price_item(d, item_id) ==
    [db |-> [d EXCEPT !.price_item_locations = {q \in @ : q[1] # item_id},
                      !.price_items = Drop(@, item_id)],
     ret |-> item_id \in DOMAIN d.price_items]

----------------------------------------------------------------------------
(* Inventory functions (database.py) *)

\* The positions of the inventory_counts rows the LEFT JOIN pairs with item
\* item_id: c.inventory_item_id = i.id, and c.month = ? / c.store = ? for
\* each of month and store that is given (truthy).
JoinedCounts(d, item_id, month, store) ==
    {k \in 1..Len(d.inventory_counts) :
        LET c == d.inventory_counts[k]
        IN  /\ c.inventory_item_id = item_id
            /\ month # <<>> => c.month = month
            /\ store # <<>> => c.store = store}

\* COALESCE(x, y) on numbers
Coalesce(x, y) == IF x # NULL THEN x ELSE y

\* A join that reports the item's current cost whatever the count row holds
JoinedRowCurrentCost(d, item_id, k) ==
    LET i == d.inventory_items[item_id]
        has == k # 0
        c == IF has THEN d.inventory_counts[k] ELSE i
    IN  [id |-> item_id, supplier |-> i.supplier, location |-> i.location,
         item |-> i.item, unit |-> i.unit,
         cost |-> i.cost,
         current_cost |-> i.cost, is_custom |-> i.is_custom,
         archived |-> i.archived,
         count1 |-> IF has THEN Coalesce(c.count1, 0) ELSE 0,
         count2 |-> IF has THEN Coalesce(c.count2, 0) ELSE 0,
         count3 |-> IF has THEN Coalesce(c.count3, 0) ELSE 0,
         count4 |-> IF has THEN Coalesce(c.count4, 0) ELSE 0]

\* One row of the join's result: item i with count row c (k = 0: no row)
JoinedRow(d, item_id, k) ==
    LET i == d.inventory_items[item_id]
        has == k # 0
        c == IF has THEN d.inventory_counts[k] ELSE i
    IN  [id |-> item_id, supplier |-> i.supplier, location |-> i.location,
         item |-> i.item, unit |-> i.unit,
         cost |-> IF has THEN Coalesce(c.cost, i.cost) ELSE i.cost,
         current_cost |-> i.cost, is_custom |-> i.is_custom,
         archived |-> i.archived,
         count1 |-> IF has THEN Coalesce(c.count1, 0) ELSE 0,
         count2 |-> IF has THEN Coalesce(c.count2, 0) ELSE 0,
         count3 |-> IF has THEN Coalesce(c.count3, 0) ELSE 0,
         count4 |-> IF has THEN Coalesce(c.count4, 0) ELSE 0]

\* The joined rows of one item, in rowid order of the count rows
ItemRows(d, item_id, month, store) ==
    LET ks == KeysAscending(JoinedCounts(d, item_id, month, store))
    IN  IF ks = <<>> THEN <<JoinedRow(d, item_id, 0)>>
        ELSE [n \in 1..Len(ks) |-> JoinedRow(d, item_id, ks[n])]

RECURSIVE ConcatRows(_, _, _, _)
ConcatRows(d, ids, month, store) ==
    IF ids = <<>> THEN <<>>
    ELSE ItemRows(d, Head(ids), month, store) \o ConcatRows(d, Tail(ids), month, store)

\* database.py get_all_inventory.  (The result is listed by id here; the
\* query orders it by item name, which nothing below depends on.)
get_all_inventory(d, month, store, include_archived) ==
    ConcatRows(d,
        KeysAscending({i \in DOMAIN d.inventory_items :
                          include_archived \/ d.inventory_items[i].archived = 0}),
        month, store)

\* database.py get_inventory_item: fetchone() of the join, as <<row>>, or
\* <<>> for None
get_inventory_item(d, item_id, month, store) ==
    IF item_id \notin DOMAIN d.inventory_items THEN <<>>
    ELSE IF month = <<>> /\ store = <<>> THEN <<d.inventory_items[item_id]>>
    ELSE <<ItemRows(d, item_id, month, store)[1]>>

\* The row of inventory_counts with the UNIQUE key, 0 if none
CountRow(d, item_id, store, month) ==
    LET hits == {k \in 1..Len(d.inventory_counts) :
                    /\ d.inventory_counts[k].inventory_item_id = item_id
                    /\ d.inventory_counts[k].store = store
                    /\ d.inventory_counts[k].month = month}
    IN  IF hits = {} THEN 0 ELSE CHOOSE k \in hits : \A j \in hits : k <= j

\* An upsert whose conflict branch overwrites the cost as well
UpsertCountOverwrite(d, item_id, store_name, month, data) ==
    LET k == CountRow(d, item_id, store_name, month)
        row == [inventory_item_id |-> item_id, store |-> store_name,
                month |-> month,
                count1 |-> data.count1, count2 |-> data.count2,
                count3 |-> data.count3, count4 |-> data.count4,
                cost |-> data.cost]
    IN  IF k = 0 THEN [d EXCEPT !.inventory_counts = Append(@, row)]
        ELSE [d EXCEPT !.inventory_counts[k] = row]

\* An insert with no ON CONFLICT clause and no UNIQUE constraint
UpsertCountAppend(d, item_id, store_name, month, data) ==
    [d EXCEPT !.inventory_counts =
        Append(@, [inventory_item_id |-> item_id, store |-> store_name,
                   month |-> month,
                   count1 |-> data.count1, count2 |-> data.count2,
                   count3 |-> data.count3, count4 |-> data.count4,
                   cost |-> data.cost])]

\* INSERT INTO inventory_counts ... ON CONFLICT(inventory_item_id, store, month)
\* DO UPDATE SET count1..count4 = excluded, cost = COALESCE(old cost, excluded)
UpsertCount(d, item_id, store_name, month, data) ==
    LET k == CountRow(d, item_id, store_name, month)
    IN  IF k = 0
        THEN [d EXCEPT !.inventory_counts =
                 Append(@, [inventory_item_id |-> item_id, store |-> store_name,
                            month |-> month,
                            count1 |-> data.count1, count2 |-> data.count2,
                            count3 |-> data.count3, count4 |-> data.count4,
                            cost |-> data.cost])]
        ELSE [d EXCEPT !.inventory_counts[k] =
                 [@ EXCEPT !.count1 = data.count1, !.count2 = data.count2,
                           !.count3 = data.count3, !.count4 = data.count4,
                           !.cost = Coalesce(@, data.cost)]]

update_inventory_item(d, item_id, data, month, store) ==
    LET d1 == IF item_id \in DOMAIN d.inventory_items
              THEN [d EXCEPT !.inventory_items[item_id] =
                       [@ EXCEPT !.supplier = data.supplier,
                                 !.location = data.location,
                                 !.item = data.item, !.unit = data.unit,
                                 !.cost = data.cost]]
              ELSE d
        d2 == IF month # <<>> THEN UpsertCount(d1, item_id, store, month, data) ELSE d1
    IN  [db |-> d2, ret |-> get_inventory_item(d2, item_id, month, store)]

\* item_id is "custom-<now in ms>"
add_inventory_item(d, data, item_id) ==
    IF item_id \in DOMAIN d.inventory_items
    THEN [db |-> d, ret |-> "IntegrityError"]
    ELSE [db |-> [d EXCEPT !.inventory_items =
                     Put(@, item_id,
                         [supplier |-> data.supplier, location |-> data.location,
                          item |-> data.item, unit |-> data.unit, cost |-> data.cost,
                          count1 |-> 0, count2 |-> 0, count3 |-> 0, count4 |-> 0,
                          is_custom |-> 1, archived |-> 0])],
          ret |-> "ok"]

\* A delete with no "AND is_custom = 1"
delete_inventory_item_any(d, item_id) ==
    LET hit == item_id \in DOMAIN d.inventory_items
    IN  [db |-> IF hit THEN [d EXCEPT !.inventory_items = Drop(@, item_id)] ELSE d,
         ret |-> hit]

delete_inventory_item(d, item_id) ==
    LET hit == /\ item_id \in DOMAIN d.inventory_items
               /\ d.inventory_items[item_id].is_custom = 1
    IN  [db |-> IF hit THEN [d EXCEPT !.inventory_items = Drop(@, item_id)] ELSE d,
         ret |-> hit]

\* The count rows that match (keep) or do not match (~keep) the filters given
RECURSIVE FilterCounts(_, _, _, _)
FilterCounts(rows, month, store, keep) ==
    IF rows = <<>> THEN <<>>
    ELSE LET c == Head(rows)
             match == /\ month # <<>> => c.month = month
                      /\ store # <<>> => c.store = store
         IN  (IF match = keep THEN <<c>> ELSE <<>>)
                \o FilterCounts(Tail(rows), month, store, keep)

\* A clear that wipes the table when no filter is given
clear_all_counts_wipe(d, month, store) ==
    [d EXCEPT !.inventory_counts = FilterCounts(@, month, store, FALSE)]

clear_all_counts(d, month, store) ==
    IF month # <<>> \/ store # <<>>
    THEN [d EXCEPT !.inventory_counts = FilterCounts(@, month, store, FALSE)]
    ELSE d

\* A cascade with no WHERE clause
NameMatchesAll(d, item_name) == DOMAIN d.inventory_items

\* The inventory items the archive cascade's WHERE clause selects
NameMatches(d, item_name) ==
    {i \in DOMAIN d.inventory_items :
        SqlLower(d.inventory_items[i].item) = SqlLower(item_name)}

archive_price_item(d, item_id, archive) ==
    IF item_id \notin DOMAIN d.price_items
    THEN [db |-> d, ret |-> [found |-> FALSE, inventory_items_updated |-> 0]]
    ELSE LET archived_val == IF archive THEN 1 ELSE 0
             hits == NameMatches(d, d.price_items[item_id].item)
         IN  [db |-> [d EXCEPT
                        !.price_items[item_id].archived = archived_val,
                        !.inventory_items =
                            [i \in DOMAIN @ |->
                                IF i \in hits
                                THEN [@[i] EXCEPT !.archived = archived_val]
                                ELSE @[i]]],
              ret |-> [found |-> TRUE, inventory_items_updated |-> Cardinality(hits)]]

archive_inventory_item(d, item_id, archive) ==
    IF item_id \notin DOMAIN d.inventory_items THEN [db |-> d, ret |-> FALSE]
    ELSE [db |-> [d EXCEPT !.inventory_items[item_id].archived =
                               IF archive THEN 1 ELSE 0],
          ret |-> TRUE]

----------------------------------------------------------------------------
(* Schema and migrations (database.py init_db).  A row has exactly the     *)
(* columns of its table: a row of a table that lacks a column lacks the    *)
(* field.                                                                  *)

\* An INSERT into a table without the UNIQUE name, which ignores nothing
InsertNameAgain(t, name) ==
    [table |-> Put(t.table, t.seq + 1, name), seq |-> t.seq + 1]

\* INSERT OR IGNORE INTO <names table> (name): [table, seq] after it.  The
\* id is drawn from the AUTOINCREMENT sequence before the UNIQUE name is
\* looked at: an insert that is ignored has used one up.
InsertOrIgnoreName(t, name) ==
    IF IdOfName(t.table, name) # NULL THEN [t EXCEPT !.seq = @ + 1]
    ELSE [table |-> Put(t.table, t.seq + 1, name), seq |-> t.seq + 1]

RECURSIVE InsertNames(_, _)
InsertNames(t, names) ==
    IF names = <<>> THEN t
    ELSE InsertNames(InsertOrIgnoreName(t, Head(names)), Tail(names))

\* SELECT <column> FROM <items table>, in id order
ColumnOf(items, column) ==
    LET ids == KeysAscending(DOMAIN items)
    IN  [n \in 1..Len(ids) |-> items[ids[n]][column]]

\* SELECT DISTINCT <column> ... WHERE <column> != "": each name once, where
\* it comes first; NULL != "" is not true
NonEmpty(names) ==
    SelectSeq([n \in 1..Len(names) |->
                  IF \E k \in 1..(n - 1) : names[k] = names[n] THEN <<>> ELSE names[n]],
              LAMBDA x : x # <<>> /\ x # NoText)

migrate_suppliers_locations(d) ==
    LET sup == InsertNames([table |-> d.suppliers, seq |-> d.supplier_seq],
                   NonEmpty(ColumnOf(d.inventory_items, "supplier"))
                     \o NonEmpty(ColumnOf(d.price_items, "supplier")))
        loc == InsertNames([table |-> d.locations, seq |-> d.location_seq],
                   NonEmpty(ColumnOf(d.price_items, "location")))
        joined == {<<p, l>> \in (DOMAIN d.price_items) \X (DOMAIN loc.table) :
                      /\ d.price_items[p].location = loc.table[l]
                      /\ d.price_items[p].location # <<>>}
    IN  [d EXCEPT !.suppliers = sup.table, !.supplier_seq = sup.seq,
                  !.locations = loc.table, !.location_seq = loc.seq,
                  !.price_item_locations = @ \cup joined]

\* row with the field added (ALTER TABLE ... ADD COLUMN ... DEFAULT v)
AddField(row, field, v) ==
    [f \in DOMAIN row \cup {field} |-> IF f = field THEN v ELSE row[f]]

migrate_inventory_location(d) ==
    IF "inventory_items.location" \in d.columns THEN d
    ELSE [d EXCEPT !.columns = @ \cup {"inventory_items.location"},
                   !.inventory_items =
                       [i \in DOMAIN @ |-> AddField(@[i], "location", <<>>)]]

\* The row INSERT INTO inventory_counts_new ... SELECT copies from an old row
StoreRow(c, has_location) ==
    [inventory_item_id |-> c.inventory_item_id,
     store |-> IF has_location /\ c.location # NoText THEN c.location ELSE <<>>,
     month |-> c.month,
     count1 |-> c.count1, count2 |-> c.count2,
     count3 |-> c.count3, count4 |-> c.count4]

\* UNIQUE(inventory_item_id, store, month) holds of the rows
UniqueCounts(rows) ==
    \A a, b \in 1..Len(rows) :
        /\ rows[a].inventory_item_id = rows[b].inventory_item_id
        /\ rows[a].store = rows[b].store
        /\ rows[a].month = rows[b].month
        => a = b

\* Gives [db, ret]; the copy fails as a whole (IntegrityError, nothing
\* committed) when two old rows get the same (item, store, month).
migrate_inventory_counts_store(d) ==
    IF "inventory_counts.store" \in d.columns THEN [db |-> d, ret |-> "ok"]
    ELSE LET has_location == "inventory_counts.location" \in d.columns
             new == [k \in 1..Len(d.inventory_counts) |->
                        StoreRow(d.inventory_counts[k], has_location)]
         IN  IF UniqueCounts(new)
             THEN [db |-> [d EXCEPT
                             !.inventory_counts = new,
                             !.columns = (@ \ {"inventory_counts.location",
                                               "inventory_counts.cost"})
                                            \cup {"inventory_counts.store"}],
                   ret |-> "ok"]
             ELSE [db |-> d, ret |-> "IntegrityError"]

\* (SELECT cost FROM inventory_items WHERE id = ?), NULL when there is none
ItemCost(d, item_id) ==
    IF item_id \in DOMAIN d.inventory_items THEN d.inventory_items[item_id].cost
    ELSE NULL

migrate_inventory_counts_cost(d) ==
    IF "inventory_counts.cost" \in d.columns THEN d
    ELSE [d EXCEPT !.columns = @ \cup {"inventory_counts.cost"},
                   !.inventory_counts =
                       [k \in DOMAIN @ |->
                           AddField(@[k], "cost", ItemCost(d, @[k].inventory_item_id))]]

migrate_archived_column(d) ==
    LET d1 == IF "price_items.archived" \in d.columns THEN d
              ELSE [d EXCEPT !.columns = @ \cup {"price_items.archived"},
                             !.price_items =
                                 [i \in DOMAIN @ |-> AddField(@[i], "archived", 0)]]
    IN  IF "inventory_items.archived" \in d1.columns THEN d1
        ELSE [d1 EXCEPT !.columns = @ \cup {"inventory_items.archived"},
                        !.inventory_items =
                            [i \in DOMAIN @ |-> AddField(@[i], "archived", 0)]]

\* database.py init_db: the tables, then the five migrations in order; an
\* exception in one ends the run with the earlier ones committed.
init_db(d) ==
    LET d1 == migrate_inventory_location(migrate_suppliers_locations(d))
        r == migrate_inventory_counts_store(d1)
    IN  IF r.ret = "ok"
        THEN [db |-> migrate_archived_column(migrate_inventory_counts_cost(r.db)),
              ret |-> "ok"]
        ELSE r

SchemaCurrent(d) == d.columns = AllColumns

----------------------------------------------------------------------------
(* Seeding (database.py bulk inserts, init_db.py main) *)

RECURSIVE bulk_insert_inventory(_, _)
bulk_insert_inventory(d, items) ==
    IF items = <<>> THEN d
    ELSE LET item == Head(items)
             row == [supplier |-> item.supplier, location |-> <<>>,
                     item |-> item.item, unit |-> item.unit, cost |-> item.cost,
                     count1 |-> item.count1, count2 |-> item.count2,
                     count3 |-> item.count3, count4 |-> item.count4,
                     is_custom |-> item.is_custom, archived |-> 0]
         IN  bulk_insert_inventory(
                 [d EXCEPT !.inventory_items = Put(@, item.id, row)], Tail(items))

\* The price_history rows of one seed item (its priceHistory, in dict order)
HistoryRows(item) ==
    [n \in 1..Len(item.priceHistory) |->
        [price_item_id |-> item.id, month |-> item.priceHistory[n].month,
         price |-> item.priceHistory[n].price]]

RECURSIVE bulk_insert_prices(_, _)
bulk_insert_prices(d, items) ==
    IF items = <<>> THEN d
    ELSE LET item == Head(items)
             row == [location |-> item.location, supplier |-> item.supplier,
                     item |-> item.item, purchase_unit |-> item.purchaseUnit,
                     units_per_inv |-> item.unitsPerInv,
                     current_price |-> item.currentPrice,
                     per_unit_cost |-> item.perUnitCost, archived |-> 0]
         IN  bulk_insert_prices(
                 [d EXCEPT !.price_items = Put(@, item.id, row),
                           !.price_history = @ \o HistoryRows(item)],
                 Tail(items))

\* init_db.py main, with data.js and prices.js holding the seed items
main(d, inventory_items, price_items) ==
    LET r == init_db(d)
    IN  IF r.ret = "ok"
        THEN [db |-> bulk_insert_prices(
                         bulk_insert_inventory(r.db, inventory_items), price_items),
              ret |-> "ok"]
        ELSE r

----------------------------------------------------------------------------
(* CSV export and import of prices (server.py) *)

\* The characters, in byte order (SQLite's BINARY collation)
Alphabet ==
    <<"\n", " ", "\"", "%", ",", "-", ".",
      "0", "1", "2", "3", "4", "5", "6", "7", "8", "9", ";",
      "A", "C", "E", "F", "I", "N", "S", "T", "_",
      "a", "b", "c", "e", "f", "i", "k", "l", "m", "n", "o", "p", "r", "t", "u", "x",
      "Eacute", "eacute">>

CharRank(c) == CHOOSE n \in 1..Len(Alphabet) : Alphabet[n] = c

RECURSIVE TextLess(_, _)
TextLess(a, b) ==
    IF b = <<>> THEN FALSE
    ELSE IF a = <<>> THEN TRUE
    ELSE IF Head(a) = Head(b) THEN TextLess(Tail(a), Tail(b))
    ELSE CharRank(Head(a)) < CharRank(Head(b))

\* ORDER BY name
RECURSIVE SortNames(_)
SortNames(S) ==
    IF S = {} THEN <<>>
    ELSE LET m == CHOOSE x \in S : \A y \in S \ {x} : TextLess(x, y)
         IN  <<m>> \o SortNames(S \ {m})

\* The text of a price item id
PriceIdText(id) == <<"p", "r", "i", "c", "e", "-">> \o IntToStr(id)

\* get_all_prices(): the price items not archived.  (Listed by id here;
\* the query orders them by item name.)
ExportedIds(d) ==
    KeysAscending({i \in DOMAIN d.price_items : d.price_items[i].archived = 0})

\* One line of export_prices
ExportLine(d, id) ==
    LET i == d.price_items[id]
        locations_str == Join(SortNames(get_price_item_locations(d, id)), <<";", " ">>)
    IN  Join(<<escape_csv(PriceIdText(id)), escape_csv(locations_str),
               escape_csv(i.supplier), escape_csv(i.item),
               escape_csv(i.purchase_unit),
               PyStrFloat(i.units_per_inv), FormatFixed2(i.current_price)>>,
             <<",">>)

\* server.py export_prices: the lines after the header
export_prices(d) ==
    LET ids == ExportedIds(d)
    IN  [n \in 1..Len(ids) |-> ExportLine(d, ids[n])]

\* What a round trip is to leave as it was, per exported item
PriceView(d) ==
    [id \in {i \in DOMAIN d.price_items : d.price_items[i].archived = 0} |->
        [supplier |-> d.price_items[id].supplier,
         item |-> d.price_items[id].item,
         purchase_unit |-> d.price_items[id].purchase_unit,
         units_per_inv |-> d.price_items[id].units_per_inv,
         current_price |-> d.price_items[id].current_price,
         per_unit_cost |-> d.price_items[id].per_unit_cost,
         locations |-> get_price_item_locations(d, id)]]

\* [loc.strip() for loc in s.replace(',', ';').split(';') if loc.strip()]
RECURSIVE StripAll(_)
StripAll(parts) ==
    IF parts = <<>> THEN <<>>
    ELSE (IF Strip(Head(parts)) # <<>> THEN <<Strip(Head(parts))>> ELSE <<>>)
            \o StripAll(Tail(parts))

ParseLocations(locations_str) ==
    StripAll(Split(ReplaceChar(locations_str, ",", ";"), ";"))

\* The price item whose id has this text, NULL if none
PriceIdOfText(d, text) ==
    IF \E i \in DOMAIN d.price_items : PriceIdText(i) = text
    THEN CHOOSE i \in DOMAIN d.price_items : PriceIdText(i) = text
    ELSE NULL

\* float(field or default): [ok, value]
FloatOr(fields, n, default) ==
    IF Len(fields) < n \/ fields[n] = <<>> THEN [ok |-> TRUE, value |-> default]
    ELSE IF IsNumeral(fields[n]) THEN [ok |-> TRUE, value |-> ParseFloat(fields[n])]
    ELSE [ok |-> FALSE, value |-> 0]

(* One turn of import_prices' loop, on the fields csv.DictReader gives for *)
(* a line under the header ID,Locations,Supplier,Item,PurchaseUnit,        *)
(* UnitsPerInv,CurrentPrice.  now is the clock add_price_item would read.  *)
(* locked: the connection of an add_price_item that raised earlier in the  *)
(* loop is still open, with its transaction, so that a write raises        *)
(* OperationalError (database is locked).  Gives [db, result, called]:     *)
(* "updated", "created" or the row's error, and the database function the  *)
(* row got to.                                                             *)
import_row(d, fields, now, locked) ==
    IF Len(fields) < 5 THEN [db |-> d, result |-> "exception", called |-> "none"]
    ELSE LET item_id == Strip(fields[1])
             locations == ParseLocations(Strip(fields[2]))
             supplier == Strip(fields[3])
             item_name == Strip(fields[4])
             purchase_unit == Strip(fields[5])
             units_per_inv == FloatOr(fields, 6, 1000)
             current_price == FloatOr(fields, 7, 0)
             data == [locations |-> locations, location |-> <<>>,
                      supplier |-> supplier, item |-> item_name,
                      purchase_unit |-> purchase_unit,
                      units_per_inv |-> units_per_inv.value,
                      current_price |-> current_price.value, month |-> <<>>]
         IN  IF ~units_per_inv.ok \/ ~current_price.ok
             THEN [db |-> d, result |-> "invalid number", called |-> "none"]
             ELSE IF item_name = <<>>
             THEN [db |-> d, result |-> "name required", called |-> "none"]
             ELSE IF item_id # <<>>
             THEN LET r == update_price_item(d, PriceIdOfText(d, item_id), data)
                  IN  IF locked
                      THEN [db |-> d, result |-> "exception",
                            called |-> "update_price_item"]
                      ELSE [db |-> r.db,
                            result |-> IF r.ret THEN "updated" ELSE "not found",
                            called |-> "update_price_item"]
             ELSE LET r == add_price_item(d, data, now)
                  IN  IF locked
                      THEN [db |-> d, result |-> "exception",
                            called |-> "add_price_item"]
                      ELSE [db |-> r.db,
                            result |-> IF r.ret = "ok" THEN "created" ELSE "exception",
                            called |-> "add_price_item"]

----------------------------------------------------------------------------
(* Price sync (database.py sync_prices_to_inventory) *)

\* SQLite's LIKE: % is any run of characters, _ any one character, and the
\* ASCII letters match without regard to case.
RECURSIVE SqlLike(_, _)
SqlLike(s, pattern) ==
    IF pattern = <<>> THEN s = <<>>
    ELSE IF Head(pattern) = "%"
    THEN \E k \in 0..Len(s) : SqlLike(SubSeq(s, k + 1, Len(s)), Tail(pattern))
    ELSE IF s = <<>> THEN FALSE
    ELSE /\ \/ Head(pattern) = "_"
            \/ SqlLowerChar(Head(pattern)) = SqlLowerChar(Head(s))
         /\ SqlLike(Tail(s), Tail(pattern))

\* Python `x or ''` on a TEXT value
TextOr(s) == IF s = NoText THEN <<>> ELSE s

\* The subquery: the first name, by ORDER BY l.name, of the price item's
\* locations; NULL if it has none
FirstLocation(d, price_item_id) ==
    LET names == SortNames(get_price_item_locations(d, price_item_id))
    IN  IF names = <<>> THEN NoText ELSE names[1]

\* WHERE LOWER(item) LIKE '%<item_lower>%' OR <item_lower> LIKE '%' || LOWER(item) || '%'
SyncMatches(d, item_lower) ==
    {i \in DOMAIN d.inventory_items :
        LET name == SqlLower(d.inventory_items[i].item)
        IN  \/ SqlLike(name, <<"%">> \o item_lower \o <<"%">>)
            \/ SqlLike(item_lower, <<"%">> \o name \o <<"%">>)}

\* A turn of the loop that counts every matching item, overwritten or not
SyncItemCountMatches(d, price_item_id) ==
    LET p == d.price_items[price_item_id]
        location == FirstLocation(d, price_item_id)
        matches == SyncMatches(d, PyLower(p.item))
    IN  [db |-> [d EXCEPT !.inventory_items =
                    [i \in DOMAIN @ |->
                        IF i \in matches
                        THEN [@[i] EXCEPT !.cost = p.per_unit_cost,
                                          !.supplier = TextOr(p.supplier),
                                          !.location = TextOr(location)]
                        ELSE @[i]]],
         updated |-> Cardinality(matches)]

\* One turn of the outer loop: the inventory items price item price_item_id
\* matches, each overwritten if its cost, supplier or location differs
SyncItem(d, price_item_id) ==
    LET p == d.price_items[price_item_id]
        location == FirstLocation(d, price_item_id)
        changed ==
            {i \in SyncMatches(d, PyLower(p.item)) :
                LET inv == d.inventory_items[i]
                    diff == Or0(inv.cost) - Or0(p.per_unit_cost)
                IN  \/ (IF diff < 0 THEN -diff ELSE diff) > 1
                    \/ TextOr(inv.supplier) # TextOr(p.supplier)
                    \/ TextOr(inv.location) # TextOr(location)}
    IN  [db |-> [d EXCEPT !.inventory_items =
                    [i \in DOMAIN @ |->
                        IF i \in changed
                        THEN [@[i] EXCEPT !.cost = p.per_unit_cost,
                                          !.supplier = TextOr(p.supplier),
                                          !.location = TextOr(location)]
                        ELSE @[i]]],
         updated |-> Cardinality(changed)]

RECURSIVE SyncLoop(_, _, _)
SyncLoop(d, order, updated) ==
    IF order = <<>> THEN [db |-> d, ret |-> updated]
    ELSE LET r == SyncItem(d, Head(order))
         IN  SyncLoop(r.db, Tail(order), updated + r.updated)

\* A sync that carries the new cost into the count rows of the items too
sync_prices_to_counts(d, order) ==
    LET r == SyncLoop(d, order, 0)
        items == r.db.inventory_items
        snapshot(c) == IF c.inventory_item_id \in DOMAIN items
                       THEN [c EXCEPT !.cost = items[c.inventory_item_id].cost]
                       ELSE c
    IN  [db |-> [r.db EXCEPT !.inventory_counts =
                    [k \in 1..Len(r.db.inventory_counts) |->
                        snapshot(r.db.inventory_counts[k])]],
         ret |-> r.ret]

\* order is the order in which SELECT ... FROM price_items p (no ORDER BY)
\* gave the price items
sync_prices_to_inventory(d, order) == SyncLoop(d, order, 0)

\* The orders a SELECT with no ORDER BY can give the rows of a table in
RowOrders(ids) ==
    {f \in [1..Cardinality(ids) -> ids] :
        \A a, b \in 1..Cardinality(ids) : a # b => f[a] # f[b]}

----------------------------------------------------------------------------
(* Bounds *)

\* The milliseconds the clock runs through
MaxClock == 2

\* Rows of price_history, of inventory_counts, lines of an uploaded CSV
MaxHistory == 3

MaxCounts == 2

MaxLines == 2

\* Ids a table of suppliers, stores or locations hands out
MaxEntries == 2

\* The suppliers sequence value up to which init_db is run once more
MaxSequence == 3

----------------------------------------------------------------------------
(* Requests.  One request is served at a time.  clock is the millisecond  *)
(* read last: the next read gives a later millisecond, or the same one     *)
(* when it follows the last read at once (two calls in one millisecond).   *)
(* last is the request served last, with its arguments and its answer.     *)
(* edits are the price edits under way, each in a thread of the server:    *)
(* the transaction the thread comes to next and what it has read.          *)
(* imp is the price import under way: its lines, the line it is at and     *)
(* its counters.                                                           *)

Idle == [phase |-> "idle"]

\* The threads that serve PUT /api/prices/<item_id>/edit side by side
Requests == {"a", "b"}

NoEdit == [pc |-> "idle", id |-> NULL, data |-> <<>>, updated |-> FALSE,
           units_per_inv |-> NULL]

NoEdits == [r \in Requests |-> NoEdit]

Serving == SchemaCurrent(db) /\ imp = Idle

\* The request served last read the clock
ReadClock ==
    \/ last.op \in {"add_price_item", "add_inventory_item"} /\ last.status # 400
    \/ last.op = "import_row" /\ last.called = "add_price_item" /\ ~last.locked

Now == {t \in {clock, clock + 1} : t <= MaxClock /\ (t = clock => ReadClock)}

\* POST /api/prices
AddPriceItem(data) ==
    /\ Serving
    /\ IF data.item = <<>>
       THEN /\ last' = [op |-> "add_price_item", id |-> NULL, status |-> 400]
            /\ UNCHANGED <<db, clock, imp, edits>>
       ELSE \E now \in Now :
               LET r == add_price_item(db, data, now)
               IN  /\ db' = r.db
                   /\ clock' = now
                   /\ last' = [op |-> "add_price_item", id |-> now,
                               status |-> IF r.ret = "ok" THEN 201 ELSE 500]
                   /\ UNCHANGED <<imp, edits>>

\* PUT /api/prices/<item_id>
UpdatePrice(item_id, month, price) ==
    /\ Serving
    /\ IF month = <<>> \/ price = NULL
       THEN /\ last' = [op |-> "update_price", id |-> item_id, status |-> 400]
            /\ UNCHANGED <<db, clock, imp, edits>>
       ELSE LET r == update_price(db, item_id, month, price)
            IN  /\ db' = r.db
                /\ last' = [op |-> "update_price", id |-> item_id,
                            status |-> IF r.ret THEN 200 ELSE 404]
                /\ UNCHANGED <<clock, imp, edits>>

\* PUT /api/prices/<item_id>/edit
EditPriceItem(item_id, data) ==
    /\ Serving
    /\ IF data.item = <<>>
       THEN /\ last' = [op |-> "edit_price_item", id |-> item_id, status |-> 400]
            /\ UNCHANGED <<db, clock, imp, edits>>
       ELSE LET r == update_price_item(db, item_id,
                         [data EXCEPT !.location = <<>>, !.month = <<>>])
                r2 == IF data.month # <<>> /\ data.current_price # NULL
                      THEN update_price(r.db, item_id, data.month, data.current_price)
                      ELSE r
            IN  /\ db' = r2.db
                /\ last' = [op |-> "edit_price_item", id |-> item_id,
                            had |-> get_price_item_locations(db, item_id),
                            status |-> IF r.ret THEN 200 ELSE 404]
                /\ UNCHANGED <<clock, imp, edits>>

\* PUT /api/prices/<item_id>/edit in thread r, transaction by transaction.
\* First the UPDATE of the row, which update_price_item commits.
EditUpdateRow(r, item_id, data) ==
    /\ Serving
    /\ edits[r].pc = "idle"
    /\ data.item # <<>>
    /\ LET updated == item_id \in DOMAIN db.price_items
           history == data.month # <<>> /\ data.current_price # NULL
       IN  /\ db' = IF updated
                    THEN [db EXCEPT !.price_items[item_id] =
                             PriceRow([data EXCEPT !.location = <<>>],
                                      db.price_items[item_id].archived)]
                    ELSE db
           /\ edits' = [edits EXCEPT ![r] =
                          [pc |-> IF updated THEN "locations"
                                  ELSE IF history THEN "select" ELSE "answer",
                           id |-> item_id, data |-> data, updated |-> updated,
                           units_per_inv |-> NULL]]
    /\ UNCHANGED <<clock, last, imp>>

\* Then set_price_item_locations, a transaction of its own
EditSetLocations(r) ==
    /\ edits[r].pc = "locations"
    /\ db' = set_price_item_locations(db, edits[r].id, edits[r].data.locations)
    /\ edits' = [edits EXCEPT ![r].pc =
                   IF edits[r].data.month # <<>> /\ edits[r].data.current_price # NULL
                   THEN "select" ELSE "answer"]
    /\ UNCHANGED <<clock, last, imp>>

\* Then update_price: its SELECT of units_per_inv
EditSelectUnits(r) ==
    /\ edits[r].pc = "select"
    /\ edits' = [edits EXCEPT ![r] =
                   IF edits[r].id \in DOMAIN db.price_items
                   THEN [@ EXCEPT !.pc = "write",
                                  !.units_per_inv =
                                      db.price_items[edits[r].id].units_per_inv]
                   ELSE [@ EXCEPT !.pc = "answer"]]
    /\ UNCHANGED <<db, clock, last, imp>>

\* and its UPDATE of the price and of the history, committed together
EditWritePrice(r) ==
    /\ edits[r].pc = "write"
    /\ db' = update_price_write(db, edits[r].id, edits[r].data.month,
                                edits[r].data.current_price, edits[r].units_per_inv)
    /\ edits' = [edits EXCEPT ![r].pc = "answer"]
    /\ UNCHANGED <<clock, last, imp>>

\* The JSON answer of the edit
EditAnswer(r) ==
    /\ edits[r].pc = "answer"
    /\ last' = [op |-> "edit_price_item", id |-> edits[r].id, request |-> r,
                status |-> IF edits[r].updated THEN 200 ELSE 404]
    /\ edits' = [edits EXCEPT ![r].pc = "done"]
    /\ UNCHANGED <<db, clock, imp>>

\* DELETE /api/prices/<item_id>
DeletePriceItem(item_id) ==
    /\ Serving
    /\ LET r == delete_price_item(db, item_id)
       IN  /\ db' = r.db
           /\ last' = [op |-> "delete_price_item", id |-> item_id,
                       status |-> IF r.ret THEN 200 ELSE 404]
    /\ UNCHANGED <<clock, imp, edits>>

\* database.archive_price_item (no route calls it)
ArchivePriceItem(item_id, archive) ==
    /\ Serving
    /\ LET r == archive_price_item(db, item_id, archive)
       IN  /\ db' = r.db
           /\ last' = [op |-> "archive_price_item", id |-> item_id,
                       archive |-> archive, ret |-> r.ret,
                       name |-> IF r.ret.found THEN db.price_items[item_id].item
                                ELSE <<>>]
    /\ UNCHANGED <<clock, imp, edits>>

\* database.archive_inventory_item (no route calls it)
ArchiveInventoryItem(item_id, archive) ==
    /\ Serving
    /\ LET r == archive_inventory_item(db, item_id, archive)
       IN  /\ db' = r.db
           /\ last' = [op |-> "archive_inventory_item", id |-> item_id,
                       archive |-> archive, ret |-> r.ret]
    /\ UNCHANGED <<clock, imp, edits>>

\* PUT /api/inventory/<item_id>: month and store come in the body
UpdateInventoryItem(item_id, data, month, store) ==
    /\ Serving
    /\ month # <<>> /\ CountRow(db, item_id, store, month) = 0
          => Len(db.inventory_counts) < MaxCounts
    /\ LET r == update_inventory_item(db, item_id, data, month, store)
       IN  /\ db' = r.db
           /\ last' = [op |-> "update_inventory_item", id |-> item_id,
                       existed |-> month # <<>> /\ CountRow(db, item_id, store, month) # 0,
                       status |-> IF r.ret # <<>> THEN 200 ELSE 404]
    /\ UNCHANGED <<clock, imp, edits>>

\* POST /api/inventory
AddInventoryItem(data) ==
    /\ Serving
    /\ IF data.item = <<>>
       THEN /\ last' = [op |-> "add_inventory_item", id |-> NULL, status |-> 400]
            /\ UNCHANGED <<db, clock, imp, edits>>
       ELSE \E now \in Now :
               LET r == add_inventory_item(db, data, now)
               IN  /\ db' = r.db
                   /\ clock' = now
                   /\ last' = [op |-> "add_inventory_item", id |-> now,
                               status |-> IF r.ret = "ok" THEN 201 ELSE 500]
                   /\ UNCHANGED <<imp, edits>>

\* DELETE /api/inventory/<item_id>
DeleteInventoryItem(item_id) ==
    /\ Serving
    /\ LET r == delete_inventory_item(db, item_id)
       IN  /\ db' = r.db
           /\ last' = [op |-> "delete_inventory_item", id |-> item_id,
                       status |-> IF r.ret THEN 200 ELSE 404]
    /\ UNCHANGED <<clock, imp, edits>>

\* GET /api/inventory?month=&store=, and database.get_all_inventory called
\* with include_archived (the route leaves it False)
GetInventory(month, store, include_archived) ==
    /\ Serving
    /\ last' = [op |-> "get_all_inventory", month |-> month, store |-> store,
                include_archived |-> include_archived, status |-> 200,
                items |-> get_all_inventory(db, month, store, include_archived)]
    /\ UNCHANGED <<db, clock, imp, edits>>

\* POST /api/inventory/clear-counts
ClearCounts(month, store) ==
    /\ Serving
    /\ db' = clear_all_counts(db, month, store)
    /\ last' = [op |-> "clear_counts", month |-> month, store |-> store,
                deleted |-> Len(db.inventory_counts) - Len(db'.inventory_counts),
                status |-> 200]
    /\ UNCHANGED <<clock, imp, edits>>

\* any([i['count1'], i['count2'], i['count3'], i['count4']])
AnyCount(i) == i.count1 # 0 \/ i.count2 # 0 \/ i.count3 # 0 \/ i.count4 # 0

\* An export with no "if not items" answer
export_inventory_empty_csv(d, month) ==
    [status |-> 200,
     items |-> SelectSeq(get_all_inventory(d, month, <<>>, FALSE), AnyCount)]

\* server.py export_inventory: 400, or 200 with the items the CSV lists; 500
\* when a listed item has no cost to format (f"{None:.2f}" raises TypeError)
export_inventory(d, month) ==
    LET items == SelectSeq(get_all_inventory(d, month, <<>>, FALSE), AnyCount)
    IN  IF items = <<>> THEN [status |-> 400, items |-> <<>>]
        ELSE IF \E n \in 1..Len(items) : items[n].cost = NULL
        THEN [status |-> 500, items |-> <<>>]
        ELSE [status |-> 200, items |-> items]

\* The key of by_supplier: i['supplier'] or 'No Supplier'
SupplierKey(i) ==
    IF i.supplier \in {<<>>, NoText}
    THEN <<"N", "o", " ", "S", "u", "p", "p", "l", "i", "e", "r">>
    ELSE i.supplier

\* total = sum of the four counts (or 0), in thousandths
TotalCount(i) == Or0(i.count1) + Or0(i.count2) + Or0(i.count3) + Or0(i.count4)

\* An extended value rounded to the cent before it is added up
ExtendedToTheCent(i) == 10000 * RoundHalfEven(TotalCount(i) * Or0(i.cost), 10000)

\* extended = total * (i['cost'] or 0), in millionths
Extended(i) == TotalCount(i) * Or0(i.cost)

\* supplier_total += extended, over the items of a group
RECURSIVE SumExtended(_)
SumExtended(items) ==
    IF items = <<>> THEN 0 ELSE Extended(Head(items)) + SumExtended(Tail(items))

\* f"{x:.2f}" of a value in millionths: the cents written
Fixed2Cents(x) == RoundHalfEven(x, 10000)

\* The lines of the CSV: for each supplier key, in sorted order, its item
\* rows and its TOTAL line, and the GRAND TOTAL line.  Money is in cents as
\* written, counts in thousandths.
inventory_sheet(items) ==
    LET keys == SortNames({SupplierKey(items[n]) : n \in 1..Len(items)})
        Group(s) == SelectSeq(items, LAMBDA i : SupplierKey(i) = s)
        Line(i) == [id |-> i.id, supplier |-> i.supplier,
                    cost |-> RoundHalfEven(i.cost, 10),
                    total |-> TotalCount(i),
                    extended |-> Fixed2Cents(Extended(i))]
    IN  [groups |-> [g \in 1..Len(keys) |->
                       [supplier |-> keys[g],
                        rows |-> [n \in 1..Len(Group(keys[g])) |->
                                     Line(Group(keys[g])[n])],
                        supplier_total |-> Fixed2Cents(SumExtended(Group(keys[g])))]],
         grand_total |-> Fixed2Cents(SumExtended(items))]

\* GET /api/export/inventory?month=
ExportInventory(month) ==
    /\ Serving
    /\ LET r == export_inventory(db, month)
       IN  last' = [op |-> "export_inventory", month |-> month,
                    status |-> r.status, items |-> r.items,
                    sheet |-> inventory_sheet(r.items)]
    /\ UNCHANGED <<db, clock, imp, edits>>

\* GET /api/export/prices
ExportPrices ==
    /\ Serving
    /\ last' = [op |-> "export_prices", status |-> 200, body |-> export_prices(db)]
    /\ UNCHANGED <<db, clock, imp, edits>>

\* POST /api/import/prices: the upload is read and the loop begins.  The
\* upload is a file written by hand, or the body of the export just made.
ImportPricesStart(lines, roundtrip) ==
    /\ Serving
    /\ roundtrip => last.op = "export_prices" /\ lines = last.body
    /\ imp' = [phase |-> "rows", lines |-> lines, at |-> 1,
               updated |-> 0, created |-> 0, errors |-> <<>>, rows |-> 0,
               roundtrip |-> roundtrip, stale |-> FALSE,
               before |-> IF roundtrip THEN PriceView(db) ELSE <<>>]
    /\ UNCHANGED <<db, clock, last, edits>>

\* Counters that leave out the rows whose ID was not found
TallySkipsNotFound(i, result) ==
    [i EXCEPT
       !.at = @ + 1,
       !.rows = IF result = "blank" THEN @ ELSE @ + 1,
       !.updated = IF result = "updated" THEN @ + 1 ELSE @,
       !.created = IF result = "created" THEN @ + 1 ELSE @,
       !.errors = IF result \in {"updated", "created", "blank", "not found"} THEN @
                  ELSE Append(@, [row |-> i.rows + 2, error |-> result])]

\* The counters after a row that ended in result; enumerate(reader, start=2)
\* numbers the rows the reader yields
Tally(i, result) ==
    [i EXCEPT
       !.at = @ + 1,
       !.rows = IF result = "blank" THEN @ ELSE @ + 1,
       !.updated = IF result = "updated" THEN @ + 1 ELSE @,
       !.created = IF result = "created" THEN @ + 1 ELSE @,
       !.errors = IF result \in {"updated", "created", "blank"} THEN @
                  ELSE Append(@, [row |-> i.rows + 2, error |-> result])]

\* One turn of the loop.  csv.DictReader passes over a blank line.  After an
\* add_price_item that raised, its connection stays open until it is
\* collected; a later row finds the database locked (locked) or the
\* connection gone.
ImportPricesRow ==
    /\ imp.phase = "rows"
    /\ imp.at <= Len(imp.lines)
    /\ \E now \in Now \cup {clock + 1}, locked \in {FALSE, imp.stale} :
          LET fields == CsvParseLine(imp.lines[imp.at])
              r == IF imp.lines[imp.at] = <<>>
                   THEN [db |-> db, result |-> "blank", called |-> "none"]
                   ELSE import_row(db, fields, now, locked)
              raised == r.called = "add_price_item" /\ r.result = "exception"
          IN  /\ r.called = "add_price_item" => now \in Now
              /\ r.called = "none" => ~locked
              /\ db' = r.db
              /\ clock' = IF r.called = "add_price_item" THEN now ELSE clock
              /\ imp' = [Tally(imp, r.result) EXCEPT
                           !.stale = IF r.called = "none" THEN @
                                     ELSE locked \/ raised]
              /\ last' = [op |-> "import_row", fields |-> fields,
                          result |-> r.result, called |-> r.called,
                          locked |-> locked]
              /\ UNCHANGED edits

\* The loop is over: the JSON answer
ImportPricesFinish ==
    /\ imp.phase = "rows"
    /\ imp.at > Len(imp.lines)
    /\ last' = [op |-> "import_prices", status |-> 200, lines |-> imp.lines,
                updated |-> imp.updated, created |-> imp.created,
                errors |-> imp.errors, roundtrip |-> imp.roundtrip,
                before |-> imp.before]
    /\ imp' = Idle
    /\ UNCHANGED <<db, clock, edits>>

\* python database.py: init_db() alone
InitDb ==
    /\ imp = Idle
    /\ db.supplier_seq < MaxSequence
    /\ LET r == init_db(db)
       IN  /\ db' = r.db
           /\ last' = [op |-> "init_db", ret |-> r.ret]
    /\ UNCHANGED <<clock, imp, edits>>

\* python init_db.py: init_db(), then the seed items of data.js and prices.js
Main(inventory_items, price_items) ==
    /\ imp = Idle
    /\ Len(db.price_history) < MaxHistory
    /\ LET r == main(db, inventory_items, price_items)
       IN  /\ db' = r.db
           /\ last' = [op |-> "main", ret |-> r.ret]
    /\ UNCHANGED <<clock, imp, edits>>

\* POST /api/suppliers, /api/stores, /api/locations: three routes of the
\* same text, one per table
AddEntry(table, raw) ==
    /\ Serving
    /\ db[SeqOf(table)] < MaxEntries
    /\ LET name == Strip(raw)
           r == CASE table = "suppliers" -> add_supplier(db, name)
                  [] table = "stores" -> add_store(db, name)
                  [] OTHER -> add_location(db, name)
       IN  IF name = <<>>
           THEN /\ last' = [op |-> "add_entry", table |-> table, name |-> name,
                            id |-> NULL, status |-> 400]
                /\ UNCHANGED db
           ELSE /\ db' = r.db
                /\ last' = [op |-> "add_entry", table |-> table, name |-> name,
                            id |-> r.ret,
                            status |-> IF r.ret # NULL THEN 201 ELSE 409]
    /\ UNCHANGED <<clock, imp, edits>>

\* PUT /api/suppliers/<id>, /api/stores/<id>, /api/locations/<id>
RenameEntry(table, id, raw) ==
    /\ Serving
    /\ LET name == Strip(raw)
           r == CASE table = "suppliers" -> update_supplier(db, id, name)
                  [] table = "stores" -> update_store(db, id, name)
                  [] OTHER -> update_location(db, id, name)
       IN  IF name = <<>>
           THEN /\ last' = [op |-> "rename_entry", table |-> table, name |-> name,
                            id |-> id, status |-> 400]
                /\ UNCHANGED db
           ELSE /\ db' = r.db
                /\ last' = [op |-> "rename_entry", table |-> table, name |-> name,
                            id |-> id,
                            status |-> IF r.ret # NULL THEN 200 ELSE 404]
    /\ UNCHANGED <<clock, imp, edits>>

\* DELETE /api/suppliers/<id>, /api/stores/<id>, /api/locations/<id>
RemoveEntry(table, id) ==
    /\ Serving
    /\ LET r == CASE table = "suppliers" -> delete_supplier(db, id)
                  [] table = "stores" -> delete_store(db, id)
                  [] OTHER -> delete_location(db, id)
       IN  /\ db' = r.db
           /\ last' = [op |-> "remove_entry", table |-> table, name |-> <<>>,
                       id |-> id, status |-> IF r.ret THEN 200 ELSE 404]
    /\ UNCHANGED <<clock, imp, edits>>

\* POST /api/prices/sync
SyncPrices ==
    /\ Serving
    /\ \E order \in RowOrders(DOMAIN db.price_items) :
          LET r == sync_prices_to_inventory(db, order)
          IN  /\ db' = r.db
              /\ last' = [op |-> "sync_prices", order |-> order,
                          updated |-> r.ret, status |-> 200]
    /\ UNCHANGED <<clock, imp, edits>>

----------------------------------------------------------------------------
(* The values the requests are drawn from *)

TxtTea == <<"T", "e", "a">>

TxtTeaUpper == <<"T", "E", "A">>

TxtCafe == <<"C", "a", "f", "eacute">>

TxtCafeUpper == <<"C", "A", "F", "Eacute">>

TxtWild == <<"T", "_", "a">>

TxtAcme == <<"A", "c", "m", "e">>

TxtFarm == <<"F", "a", "r", "m">>

TxtPack == <<"p", "k">>

TxtEach == <<"e", "a">>

TxtInman == <<"I", "n", "m", "a", "n">>

LocBack == <<"b", "a", "c", "k">>

LocCab == <<"c", "a", "b">>

Month1 == <<"2", "0", "2", "4", "-", "0", "1">>

Month2 == <<"2", "0", "2", "4", "-", "0", "2">>

\* data.js and prices.js
SeedInventory ==
    <<[id |-> 101, supplier |-> TxtAcme, item |-> TxtTea, unit |-> TxtEach,
       cost |-> 1250, count1 |-> 0, count2 |-> 0, count3 |-> 0, count4 |-> 0,
       is_custom |-> 0]>>

SeedPrices ==
    <<[id |-> 101, location |-> LocBack, supplier |-> TxtAcme, item |-> TxtTea,
       purchaseUnit |-> TxtPack, unitsPerInv |-> 2000, currentPrice |-> 2500,
       perUnitCost |-> 1250,
       priceHistory |-> <<[month |-> Month1, price |-> 2500]>>]>>

\* The database file after init_db() made it
FreshDb == init_db(EmptyTables).db

\* Files of earlier versions: before any migration; with a location column
\* in inventory_counts (the second such file holds an empty and a NULL
\* location for one item and month); with the store column but no cost or
\* archived column
LegacyItems ==
    Put(<<>>, 101, [supplier |-> TxtAcme, item |-> TxtTea, unit |-> TxtEach,
                    cost |-> 1250, count1 |-> 0, count2 |-> 0, count3 |-> 0,
                    count4 |-> 0, is_custom |-> 0])

LegacyPrices ==
    Put(<<>>, 101, [location |-> LocBack, supplier |-> TxtAcme, item |-> TxtTea,
                    purchase_unit |-> TxtPack, units_per_inv |-> 2000,
                    current_price |-> 2500, per_unit_cost |-> 1250])

LegacyCount(item_id, month, count1) ==
    [inventory_item_id |-> item_id, month |-> month, count1 |-> count1,
     count2 |-> 0, count3 |-> 0, count4 |-> 0]

LegacyDbs ==
    {[EmptyTables EXCEPT
        !.columns = {},
        !.inventory_items = LegacyItems, !.price_items = LegacyPrices,
        !.inventory_counts = <<LegacyCount(101, Month1, 1000),
                               LegacyCount(101, Month2, 0)>>],
     [EmptyTables EXCEPT
        !.columns = {"inventory_counts.location"},
        !.inventory_items = LegacyItems, !.price_items = LegacyPrices,
        !.inventory_counts =
            <<AddField(LegacyCount(101, Month1, 1000), "location", TxtInman),
              AddField(LegacyCount(101, Month1, 2000), "location", NoText)>>],
     [EmptyTables EXCEPT
        !.columns = {"inventory_counts.location"},
        !.inventory_items = LegacyItems, !.price_items = LegacyPrices,
        !.inventory_counts =
            <<AddField(LegacyCount(101, Month1, 1000), "location", <<>>),
              AddField(LegacyCount(101, Month1, 2000), "location", NoText)>>],
     [EmptyTables EXCEPT
        !.columns = {"inventory_items.location", "inventory_counts.store"},
        !.inventory_items =
            [i \in DOMAIN LegacyItems |-> AddField(LegacyItems[i], "location", <<>>)],
        !.price_items = LegacyPrices,
        !.inventory_counts =
            <<AddField(LegacyCount(101, Month1, 1000), "store", <<>>),
              AddField(LegacyCount(7, Month1, 1000), "store", TxtInman)>>]}

Init ==
    /\ db = FreshDb
    /\ clock = 0
    /\ last = [op |-> "none"]
    /\ imp = Idle
    /\ edits = NoEdits

InitLegacy ==
    /\ db \in {FreshDb} \cup LegacyDbs
    /\ clock = 0
    /\ last = [op |-> "none"]
    /\ imp = Idle
    /\ edits = NoEdits

----------------------------------------------------------------------------
(* The price ledger: create, set price, edit, delete *)

PriceIds == 1..MaxClock
PriceInputs ==
    [item : {TxtTea}, supplier : {TxtAcme}, purchase_unit : {TxtPack},
     units_per_inv : {0, 500, 2000}, current_price : {0, 125},
     locations : {<<>>}, location : {<<>>}, month : {<<>>, Month1}]
       \cup
    [item : {<<>>}, supplier : {TxtAcme}, purchase_unit : {TxtPack},
     units_per_inv : {500}, current_price : {125},
     locations : {<<>>}, location : {<<>>}, month : {<<>>}]

\* Lines of an upload written by hand
Num05 == <<"0", ".", "5">>
Num0125 == <<"0", ".", "1", "2", "5">>
LineOf(fields) == Join(fields, <<",">>)
LineCreate == LineOf(<< <<>>, LocBack, TxtAcme, TxtTea, TxtPack, Num05, Num0125 >>)
LineKnown == LineOf(<<PriceIdText(1), <<>>, TxtAcme, TxtTeaUpper, TxtPack, <<>>, Num0125>>)
LineUnknown == LineOf(<<PriceIdText(9), <<>>, TxtAcme, TxtTea, TxtPack, Num05, Num0125>>)
LineNoName == LineOf(<< <<>>, <<>>, TxtAcme, <<" ">>, TxtPack, Num05, Num0125 >>)
LineBadNumber == LineOf(<< <<>>, <<>>, TxtAcme, TxtTea, TxtPack, <<"x">>, Num0125 >>)
LineShort == PriceIdText(1)
HandLines == {LineCreate, LineKnown, LineUnknown, LineNoName, LineBadNumber,
              LineShort, <<>>}
Uploads == UNION {[1..n -> HandLines] : n \in 0..MaxLines}

NextPrices ==
    \/ \E data \in PriceInputs : AddPriceItem(data)
    \/ \E id \in PriceIds, month \in {<<>>, Month1}, price \in {125, 2500} :
          UpdatePrice(id, month, price)
    \/ \E id \in PriceIds, data \in PriceInputs : EditPriceItem(id, data)
    \/ \E id \in PriceIds : DeletePriceItem(id)
    \/ \E line \in {LineCreate, LineKnown} : ImportPricesStart(<<line>>, FALSE)
    \/ ImportPricesRow
    \/ ImportPricesFinish
SpecPrices == Init /\ [][NextPrices]_vars

\* C1 as stated: every stored price item has
\* per_unit_cost = round(current_price / max(units_per_inv, 1), 2).
C1_PerUnitCostMaxUnits ==
    \A id \in DOMAIN db.price_items :
        LET p == db.price_items[id]
            divisor == IF p.units_per_inv > 1000 THEN p.units_per_inv ELSE 1000
        IN  p.per_unit_cost = 10 * RoundHalfEven(p.current_price * 1000, divisor * 10)

\* C1 amended: after any sequence of creates, edits, price sets and imported
\* rows, every stored price item has a nonzero units_per_inv (a zero or
\* missing one is stored as 1) and
\* per_unit_cost = round(current_price / units_per_inv, 2): the divisor is
\* units_per_inv itself, also when it is below 1.
C1_PerUnitCost ==
    \A id \in DOMAIN db.price_items :
        LET p == db.price_items[id]
        IN  /\ p.units_per_inv # 0
            /\ p.per_unit_cost =
                  10 * RoundHalfEven(p.current_price * 1000, p.units_per_inv * 10)

\* A price was set on an item that holds half an inventory unit
C1_Witness ==
    /\ last.op = "update_price" /\ last.status = 200
    /\ db.price_items[last.id].units_per_inv = 500
    /\ db.price_items[last.id].current_price = 2500
    /\ db.price_items[last.id].per_unit_cost = 5000

(* Counting: files of every version are opened (init_db migrates them),   *)
(* counts are upserted and cleared, custom items added and deleted.        *)
CountIds == {101, 1}
CountStores == {<<>>, TxtInman}
CountInputs ==
    [supplier : {TxtAcme}, location : {<<>>}, item : {TxtTea}, unit : {TxtEach},
     cost : {NULL, 2500}, count1 : {1000}, count2 : {0}, count3 : {0},
     count4 : {0}]
       \cup
    [supplier : {TxtAcme}, location : {<<>>}, item : {TxtTea}, unit : {TxtEach},
     cost : {NULL, 2500}, count1 : {0}, count2 : {0}, count3 : {0},
     count4 : {2000}]
CustomInputs ==
    [supplier : {TxtAcme}, location : {<<>>}, item : {TxtTea, <<>>},
     unit : {TxtEach}, cost : {1250}]
NextCounts ==
    \/ InitDb
    \/ \E id \in CountIds, data \in CountInputs, month \in {<<>>, Month1},
          store \in CountStores : UpdateInventoryItem(id, data, month, store)
    \/ \E month \in {<<>>, Month1}, store \in CountStores : ClearCounts(month, store)
    \/ \E data \in CustomInputs : AddInventoryItem(data)
    \/ \E id \in CountIds : DeleteInventoryItem(id)
SpecCounts == InitLegacy /\ [][NextCounts]_vars

\* The count rows of (item, store, month)
C2_Rows(d, id, store, month) ==
    {k \in 1..Len(d.inventory_counts) :
        /\ d.inventory_counts[k].inventory_item_id = id
        /\ d.inventory_counts[k].store = store
        /\ d.inventory_counts[k].month = month}

\* C2 as stated: an upsert on an (item, store, month) that has a count row
\* leaves the row with the call's count1..count4 and with the cost it had.
C2_CostNeverChanges ==
    [][last'.op = "update_inventory_item" /\ last'.existed =>
       \A store \in CountStores :
          \A k \in C2_Rows(db, last'.id, store, Month1) :
             \A data \in CountInputs :
                UpdateInventoryItem(last'.id, data, Month1, store) =>
                   /\ Len(db'.inventory_counts) = Len(db.inventory_counts)
                   /\ db'.inventory_counts[k].count1 = data.count1
                   /\ db'.inventory_counts[k].count2 = data.count2
                   /\ db'.inventory_counts[k].count3 = data.count3
                   /\ db'.inventory_counts[k].count4 = data.count4
                   /\ db'.inventory_counts[k].cost = db.inventory_counts[k].cost]_vars

\* C2 amended: an upsert on an (item, store, month) that has a count row adds
\* no row and leaves that row with the call's count1..count4; the row's cost
\* stays what it was when it was not NULL, and becomes the call's cost when
\* it was NULL (the earlier call gave a null cost).
C2_SecondUpsert ==
    [][last'.op = "update_inventory_item" /\ last'.existed =>
       \A store \in CountStores :
          \A k \in C2_Rows(db, last'.id, store, Month1) :
             \A data \in CountInputs :
                UpdateInventoryItem(last'.id, data, Month1, store) =>
                   /\ Len(db'.inventory_counts) = Len(db.inventory_counts)
                   /\ db'.inventory_counts[k].inventory_item_id = last'.id
                   /\ db'.inventory_counts[k].store = store
                   /\ db'.inventory_counts[k].month = Month1
                   /\ db'.inventory_counts[k].count1 = data.count1
                   /\ db'.inventory_counts[k].count2 = data.count2
                   /\ db'.inventory_counts[k].count3 = data.count3
                   /\ db'.inventory_counts[k].count4 = data.count4
                   /\ db'.inventory_counts[k].cost =
                         IF db.inventory_counts[k].cost = NULL THEN data.cost
                         ELSE db.inventory_counts[k].cost]_vars

\* A second upsert gave a null cost (the item's cost is now NULL) and the
\* one count row there is, its row, still holds the cost 2.50 and no count1
C2_Witness ==
    /\ last.op = "update_inventory_item" /\ last.existed
    /\ last.id \in DOMAIN db.inventory_items
    /\ db.inventory_items[last.id].cost = NULL
    /\ Len(db.inventory_counts) = 1
    /\ db.inventory_counts[1].inventory_item_id = last.id
    /\ db.inventory_counts[1].cost = 2500
    /\ db.inventory_counts[1].count4 = 2000

\* C3: once the file has the store column (after init_db), no two rows of
\* inventory_counts have the same (inventory item id, store, month).
C3_OneCountRow ==
    "inventory_counts.store" \in db.columns =>
        \A a, b \in 1..Len(db.inventory_counts) :
            a # b =>
               <<db.inventory_counts[a].inventory_item_id,
                 db.inventory_counts[a].store, db.inventory_counts[a].month>>
               # <<db.inventory_counts[b].inventory_item_id,
                   db.inventory_counts[b].store, db.inventory_counts[b].month>>

\* An upsert met its own row while the item has a row for another store too
C3_Witness ==
    /\ last.op = "update_inventory_item" /\ last.existed
    /\ \E a, b \in 1..Len(db.inventory_counts) :
          /\ db.inventory_counts[a].inventory_item_id = last.id
          /\ db.inventory_counts[b].inventory_item_id = last.id
          /\ db.inventory_counts[a].month = db.inventory_counts[b].month
          /\ db.inventory_counts[a].store = <<>>
          /\ db.inventory_counts[b].store = TxtInman

(* Seeding: init_db.py is run, any number of times, on a file that price   *)
(* requests are served from in between.                                    *)
SeedIds == {101} \cup PriceIds
SeedInputs ==
    [item : {TxtTea}, supplier : {TxtAcme}, purchase_unit : {TxtPack},
     units_per_inv : {2000}, current_price : {2500},
     locations : {<<>>}, location : {<<>>}, month : {<<>>, Month1}]
NextSeed ==
    \/ Main(SeedInventory, SeedPrices)
    \/ \E data \in SeedInputs : AddPriceItem(data)
    \/ \E id \in SeedIds, price \in {125, 2500} : UpdatePrice(id, Month1, price)
    \/ \E id \in SeedIds, data \in SeedInputs : EditPriceItem(id, data)
    \/ \E id \in SeedIds : DeletePriceItem(id)
SpecSeed == Init /\ [][NextSeed]_vars

\* C4: price_history holds at most one row for each (price item id, month).
C4_OneHistoryRow ==
    \A a, b \in 1..Len(db.price_history) :
        /\ db.price_history[a].price_item_id = db.price_history[b].price_item_id
        /\ db.price_history[a].month = db.price_history[b].month
        => a = b

(* Archiving: price items and custom inventory items are added under      *)
(* names that differ in case, and archived and unarchived.                 *)
ArchiveInputs(names) ==
    [item : names, supplier : {TxtAcme}, purchase_unit : {TxtPack},
     units_per_inv : {2000}, current_price : {2500},
     locations : {<<>>}, location : {<<>>}, month : {<<>>}]
ArchiveCustomInputs ==
    [supplier : {TxtAcme}, location : {<<>>}, item : {TxtTea, TxtCafe},
     unit : {TxtEach}, cost : {1250}]
NextArchive ==
    \/ \E data \in ArchiveInputs({TxtTeaUpper, TxtCafeUpper, TxtCafe}) : AddPriceItem(data)
    \/ \E data \in ArchiveCustomInputs : AddInventoryItem(data)
    \/ \E id \in PriceIds, archive \in BOOLEAN : ArchivePriceItem(id, archive)
    \/ \E id \in PriceIds, archive \in BOOLEAN : ArchiveInventoryItem(id, archive)
SpecArchive == Init /\ [][NextArchive]_vars

\* C5: after archive_price_item(id, archive) on an existing price item, its
\* archived flag is `archive`, so is the flag of every inventory item whose
\* name equals the price item's name but for the case of its letters, and
\* the number returned is the number of those inventory items.
C5_ArchiveCascade ==
    last.op = "archive_price_item" /\ last.ret.found =>
        LET val == IF last.archive THEN 1 ELSE 0
            same == {i \in DOMAIN db.inventory_items :
                        PyLower(db.inventory_items[i].item)
                           = PyLower(db.price_items[last.id].item)}
        IN  /\ db.price_items[last.id].archived = val
            /\ \A i \in same : db.inventory_items[i].archived = val
            /\ last.ret.inventory_items_updated = Cardinality(same)

\* C6: delete_inventory_item on an id that is no inventory item, or an item
\* whose is_custom is not 1, changes no table and is answered 404; on a
\* custom item it removes that item alone and is answered 200.
C6_DeleteCustomOnly ==
    [][last'.op = "delete_inventory_item" =>
          IF /\ last'.id \in DOMAIN db.inventory_items
             /\ db.inventory_items[last'.id].is_custom = 1
          THEN /\ last'.status = 200
               /\ DOMAIN db'.inventory_items = DOMAIN db.inventory_items \ {last'.id}
               /\ \A i \in DOMAIN db'.inventory_items :
                     db'.inventory_items[i] = db.inventory_items[i]
          ELSE /\ last'.status = 404
               /\ db' = db]_vars

\* A delete was refused for a seed item that has count rows
C6_Witness ==
    /\ last.op = "delete_inventory_item" /\ last.status = 404
    /\ last.id \in DOMAIN db.inventory_items
    /\ db.inventory_items[last.id].is_custom = 0
    /\ \E k \in 1..Len(db.inventory_counts) :
          db.inventory_counts[k].inventory_item_id = last.id

(* The inventory sheet: the file is seeded, custom items are added,        *)
(* counted, archived and deleted, counts are cleared, a month is exported. *)
SheetInputs ==
    [supplier : {TxtAcme}, location : {<<>>}, item : {TxtTea}, unit : {TxtEach},
     cost : {1250}, count1 : {NULL, 0, 1000}, count2 : {0}, count3 : {0},
     count4 : {0}]
NextSheet ==
    \/ Main(SeedInventory, SeedPrices)
    \/ \E data \in CustomInputs : AddInventoryItem(data)
    \/ \E id \in CountIds, data \in SheetInputs, store \in CountStores :
          UpdateInventoryItem(id, data, Month1, store)
    \/ \E id \in CountIds, archive \in BOOLEAN : ArchiveInventoryItem(id, archive)
    \/ \E id \in CountIds : DeleteInventoryItem(id)
    \/ ClearCounts(Month1, <<>>)
    \/ \E month \in {<<>>, Month1, Month2} : ExportInventory(month)
SpecSheet == Init /\ [][NextSheet]_vars

\* C10: an export of a month in which every count row of every inventory
\* item not archived holds no nonzero count is answered 400, with no CSV.
C10_NoCountsNoCsv ==
    /\ last.op = "export_inventory"
    /\ last.month # <<>>
    /\ \A k \in 1..Len(db.inventory_counts) :
          LET c == db.inventory_counts[k]
          IN  /\ c.month = last.month
              /\ c.inventory_item_id \in DOMAIN db.inventory_items
              /\ db.inventory_items[c.inventory_item_id].archived = 0
              => /\ c.count1 \in {0, NULL} /\ c.count2 \in {0, NULL}
                 /\ c.count3 \in {0, NULL} /\ c.count4 \in {0, NULL}
    => last.status = 400 /\ last.items = <<>>

\* The export of a month was answered 400 while an archived item holds a
\* count of 1 for that month, and another item a count row of zeros
C10_Witness ==
    /\ last.op = "export_inventory" /\ last.month = Month1 /\ last.status = 400
    /\ \E k \in 1..Len(db.inventory_counts) :
          /\ db.inventory_counts[k].month = Month1
          /\ db.inventory_counts[k].count1 = 1000
          /\ db.inventory_counts[k].inventory_item_id \in DOMAIN db.inventory_items
          /\ db.inventory_items[db.inventory_counts[k].inventory_item_id].archived = 1
    /\ \E k \in 1..Len(db.inventory_counts) :
          /\ db.inventory_counts[k].month = Month1
          /\ db.inventory_counts[k].count1 = 0
          /\ db.inventory_counts[k].inventory_item_id \in DOMAIN db.inventory_items
          /\ db.inventory_items[db.inventory_counts[k].inventory_item_id].archived = 0

(* The CSV exchange: price items are added, exported, and uploads are      *)
(* imported, written by hand or the export itself.                         *)
CsvInputs ==
    {[item |-> TxtTea, supplier |-> TxtAcme, purchase_unit |-> TxtPack,
      units_per_inv |-> 500, current_price |-> 125,
      locations |-> <<LocBack, LocCab>>, location |-> <<>>, month |-> <<>>],
     [item |-> TxtTea, supplier |-> TxtAcme, purchase_unit |-> TxtPack,
      units_per_inv |-> 2000, current_price |-> 2500,
      locations |-> <<>>, location |-> <<>>, month |-> <<>>]}
NextCsv ==
    \/ \E data \in CsvInputs : AddPriceItem(data)
    \/ ExportPrices
    \/ \E lines \in Uploads : ImportPricesStart(lines, FALSE)
    \/ ImportPricesStart(last.body, TRUE)
    \/ ImportPricesRow
    \/ ImportPricesFinish
SpecCsv == Init /\ [][NextCsv]_vars
(* The whole program: every request and both scripts, on a file of any    *)
(* version.                                                                *)
Next ==
    \/ NextPrices
    \/ NextCounts
    \/ NextSeed
    \/ NextArchive
    \/ NextSheet
    \/ NextCsv
Spec == InitLegacy /\ [][Next]_vars

\* The price item a row's ID names, NULL if none
C7_Named(fields) ==
    IF \E i \in DOMAIN db.price_items : PriceIdText(i) = Strip(fields[1])
    THEN CHOOSE i \in DOMAIN db.price_items : PriceIdText(i) = Strip(fields[1])
    ELSE NULL

\* C7, for rows that have every column, a name and well-formed numbers: a
\* row with a blank ID creates exactly one price item and changes no other;
\* a row whose ID names no price item adds one row error and changes no
\* table; a row whose ID names a price item is counted as updated, leaves
\* the set of price items as it was and changes no other item.
C7_ImportRow ==
    [][/\ last'.op = "import_row"
       /\ Len(last'.fields) >= 5
       /\ Strip(last'.fields[4]) # <<>>
       /\ FloatOr(last'.fields, 6, 1000).ok /\ FloatOr(last'.fields, 7, 0).ok
       => IF Strip(last'.fields[1]) = <<>>
          THEN /\ last'.result = "created"
               /\ \E new \in DOMAIN db'.price_items \ DOMAIN db.price_items :
                     DOMAIN db'.price_items = DOMAIN db.price_items \cup {new}
               /\ \A i \in DOMAIN db.price_items :
                     db'.price_items[i] = db.price_items[i]
          ELSE IF C7_Named(last'.fields) = NULL
          THEN /\ last'.result = "not found"
               /\ db' = db
               /\ Len(imp'.errors) = Len(imp.errors) + 1
          ELSE /\ last'.result = "updated"
               /\ DOMAIN db'.price_items = DOMAIN db.price_items
               /\ \A i \in DOMAIN db.price_items \ {C7_Named(last'.fields)} :
                     db'.price_items[i] = db.price_items[i]]_vars

\* The rows csv.DictReader yields: the lines that are not blank
C8_DataRows(lines) == Cardinality({n \in 1..Len(lines) : lines[n] # <<>>})

\* C8: while the import runs, the rows read so far are each counted once,
\* as updated, as created or by one error message, and when it answers
\* every line of the upload has been read: created + updated + number of
\* error messages is the number of data rows, and no row has two messages.
C8_EveryRowCounted ==
    /\ imp.phase = "rows" =>
          /\ imp.updated + imp.created + Len(imp.errors)
                = C8_DataRows(SubSeq(imp.lines, 1, imp.at - 1))
          /\ \A a, b \in 1..Len(imp.errors) :
                a < b => imp.errors[a].row < imp.errors[b].row
    /\ last.op = "import_prices" =>
          /\ last.updated + last.created + Len(last.errors) = C8_DataRows(last.lines)
          /\ \A a, b \in 1..Len(last.errors) :
                a < b => last.errors[a].row < last.errors[b].row
          /\ \A a \in 1..Len(last.errors) :
                last.errors[a].row \in 2..(C8_DataRows(last.lines) + 1)

\* An import of two rows answered: the first failed, the second was created
C8_Witness ==
    /\ last.op = "import_prices"
    /\ Len(last.lines) = MaxLines
    /\ Len(last.errors) = 1 /\ last.errors[1].row = 2
    /\ last.created = 1 /\ last.updated = 0

\* C9: after the export was imported back, no item was created, no row
\* error reported, and every exported price item has the supplier, name,
\* purchase unit, units_per_inv, current_price, per_unit_cost and set of
\* locations it had before.
C9_RoundTrip ==
    last.op = "import_prices" /\ last.roundtrip =>
        /\ last.created = 0
        /\ last.errors = <<>>
        /\ \A id \in DOMAIN last.before :
              /\ id \in DOMAIN PriceView(db)
              /\ PriceView(db)[id] = last.before[id]

\* C11: clear_counts(month, store) removes the count rows that match every
\* filter given and no other, keeps the rest in their order, changes no
\* other table, and removes nothing when neither month nor store is given.
C11_ClearExactly ==
    [][last'.op = "clear_counts" =>
          LET Kept(c) == ~ (/\ last'.month # <<>> => c.month = last'.month
                            /\ last'.store # <<>> => c.store = last'.store)
          IN  /\ db'.inventory_counts =
                    IF last'.month = <<>> /\ last'.store = <<>>
                    THEN db.inventory_counts
                    ELSE SelectSeq(db.inventory_counts, Kept)
              /\ db' = [db EXCEPT !.inventory_counts = db'.inventory_counts]
              /\ last'.status = 200]_vars

\* A clear by month and store removed one row and left the row the same
\* item has for that month in another store
C11_Witness ==
    /\ last.op = "clear_counts" /\ last.month = Month1 /\ last.store = TxtInman
    /\ last.deleted = 1
    /\ \E k \in 1..Len(db.inventory_counts) :
          /\ db.inventory_counts[k].month = Month1
          /\ db.inventory_counts[k].store = <<>>
          /\ db.inventory_counts[k].inventory_item_id = 101

\* C12: a price set for an id that is no price item, with a month and a
\* price, is answered 404 and changes no table (no price_history row is
\* written for the id).
C12_SetPriceNotFound ==
    [][\A id \in PriceIds, price \in {125, 2500} :
          id \notin DOMAIN db.price_items /\ UpdatePrice(id, Month1, price)
             => /\ last'.status = 404
                /\ db' = db]_vars

\* A price set was answered 404 for an id that no price item and no history
\* row has, while another price item is stored
C12_Witness ==
    /\ last.op = "update_price" /\ last.status = 404
    /\ last.id \notin DOMAIN db.price_items
    /\ db.price_items # <<>>
    /\ \A k \in 1..Len(db.price_history) : db.price_history[k].price_item_id # last.id

(* Reconciliation: price items and custom inventory items are added under  *)
(* names that differ in case or hold a LIKE wildcard, and prices are       *)
(* synced to the inventory.                                                *)
SyncPriceInputs ==
    [item : {TxtTeaUpper, TxtCafe, TxtWild}, supplier : {TxtAcme},
     purchase_unit : {TxtPack}, units_per_inv : {2000}, current_price : {2500, 125},
     locations : {<<>>, <<LocCab, LocBack>>}, location : {<<>>}, month : {<<>>}]
SyncCustomInputs ==
    [supplier : {TxtAcme, TxtFarm}, location : {<<>>}, item : {TxtTea, TxtCafeUpper},
     unit : {TxtEach}, cost : {1250}]
NextSync ==
    \/ \E data \in SyncPriceInputs : AddPriceItem(data)
    \/ \E data \in SyncCustomInputs : AddInventoryItem(data)
    \/ SyncPrices
SpecSync == Init /\ [][NextSync]_vars

\* b is a run of consecutive characters of a
C13_Contains(a, b) ==
    \E k \in 0..(Len(a) - Len(b)) : SubSeq(a, k + 1, k + Len(b)) = b

\* C13: after a sync, an inventory item whose name contains, or is contained
\* in, the name of a price item (letters compared without regard to case)
\* has the supplier and the alphabetically first location (empty if none)
\* of the last of those price items the sync processed, and a cost within
\* 0.001 of its per_unit_cost; an inventory item with no such price item
\* keeps its cost, supplier and location.
C13_SyncLastWins ==
    [][last'.op = "sync_prices" =>
          \A i \in DOMAIN db.inventory_items :
             LET inv == db.inventory_items[i]
                 now == db'.inventory_items[i]
                 order == last'.order
                 hits == {n \in 1..Len(order) :
                             LET a == PyLower(inv.item)
                                 b == PyLower(db.price_items[order[n]].item)
                             IN  C13_Contains(a, b) \/ C13_Contains(b, a)}
             IN  IF hits = {}
                 THEN /\ now.cost = inv.cost
                      /\ now.supplier = inv.supplier
                      /\ now.location = inv.location
                 ELSE LET n == CHOOSE x \in hits : \A y \in hits : y <= x
                          p == db.price_items[order[n]]
                          names == SortNames(get_price_item_locations(db, order[n]))
                      IN  /\ now.supplier = p.supplier
                          /\ now.location = IF names = <<>> THEN <<>> ELSE names[1]
                          /\ now.cost - p.per_unit_cost \in -1..1]_vars

(* The catalogs: suppliers, stores and locations are added, renamed and    *)
(* removed, and a price item brings its locations along.                   *)
EntryTables == {"suppliers", "stores", "locations"}
EntryNames == {TxtAcme, TxtFarm, <<" ">> \o TxtFarm, <<" ">>}
EntryPriceInputs ==
    [item : {TxtTea}, supplier : {TxtAcme}, purchase_unit : {TxtPack},
     units_per_inv : {2000}, current_price : {2500},
     locations : {<<TxtFarm, TxtAcme>>}, location : {<<>>}, month : {<<>>}]
NextEntries ==
    \/ \E table \in EntryTables, raw \in EntryNames : AddEntry(table, raw)
    \/ \E table \in EntryTables, id \in 1..MaxEntries, raw \in EntryNames :
          RenameEntry(table, id, raw)
    \/ \E table \in EntryTables, id \in 1..MaxEntries : RemoveEntry(table, id)
    \/ \E data \in EntryPriceInputs : AddPriceItem(data)
SpecEntries == Init /\ [][NextEntries]_vars

\* C14: an add of a supplier, store or location, or a rename of one there
\* is, to a name that another row of its table has is answered 409 and
\* leaves the tables as they were; and no two rows of such a table have the
\* same name.
C14_ConflictRejected ==
    [][/\ /\ \/ last'.op = "add_entry"
             \/ last'.op = "rename_entry" /\ last'.id \in DOMAIN db[last'.table]
          /\ \E j \in DOMAIN db[last'.table] :
                j # last'.id /\ db[last'.table][j] = last'.name
          => last'.status = 409 /\ db' = db
       /\ \A table \in EntryTables :
             \A a, b \in DOMAIN db'[table] :
                db'[table][a] = db'[table][b] => a = b]_vars

\* What holds of such an add or rename: it is answered 409 (add) or 404
\* (rename) and leaves the tables as they were, and no two rows of a table
\* have the same name.
C14_NamesStayUnique ==
    [][/\ /\ \/ last'.op = "add_entry"
             \/ last'.op = "rename_entry" /\ last'.id \in DOMAIN db[last'.table]
          /\ \E j \in DOMAIN db[last'.table] :
                j # last'.id /\ db[last'.table][j] = last'.name
          => last'.status \in {409, 404} /\ db' = db
       /\ \A table \in EntryTables :
             \A a, b \in DOMAIN db'[table] :
                db'[table][a] = db'[table][b] => a = b]_vars

(* Migration: a file of any version is opened, then counted, priced and    *)
(* pruned of suppliers and locations, and init_db is run again at any time. *)
NextMigrate ==
    \/ InitDb
    \/ \E data \in CountInputs, month \in {<<>>, Month1} :
          UpdateInventoryItem(101, data, month, <<>>)
    \/ \E data \in CsvInputs : AddPriceItem(data)
    \/ \E table \in {"suppliers", "locations"}, id \in 1..MaxEntries :
          RemoveEntry(table, id)
SpecMigrate == InitLegacy /\ [][NextMigrate]_vars

\* The tables of the program, columns and rows, without the values of
\* sqlite_sequence (SQLite's record of the largest id each table handed out)
C15_Tables(d) ==
    [f \in DOMAIN d \ {"supplier_seq", "store_seq", "location_seq"} |-> d[f]]

ListingCounts ==
    [supplier : {TxtAcme}, location : {<<>>}, item : {TxtTea}, unit : {TxtEach},
     cost : {NULL, 2500}, count1 : {NULL, 1000}, count2 : {0}, count3 : {0},
     count4 : {2000}]
NextListing ==
    \/ \E data \in CustomInputs : AddInventoryItem(data)
    \/ \E data \in ArchiveInputs({TxtTea}) : AddPriceItem(data)
    \/ \E data \in ListingCounts, month \in {Month1, Month2}, store \in CountStores :
          UpdateInventoryItem(1, data, month, store)
    \/ \E id \in PriceIds, archive \in BOOLEAN : ArchiveInventoryItem(id, archive)
    \/ SyncPrices
    \/ \E store \in CountStores, include_archived \in BOOLEAN :
          GetInventory(Month1, store, include_archived)
SpecListing == Init /\ [][NextListing]_vars

\* The listing holds one record for each inventory item that is to be
\* listed, and none for another id
C16_OnePerItem ==
    LET listed == {i \in DOMAIN db.inventory_items :
                      last.include_archived \/ db.inventory_items[i].archived = 0}
    IN  /\ Len(last.items) = Cardinality(listed)
        /\ \A i \in listed : \E n \in 1..Len(last.items) : last.items[n].id = i

\* A count as it is reported: a NULL count is 0
C16_Count(x) == IF x = NULL THEN 0 ELSE x

\* C16 as stated: the listing of a month and a store holds one record for
\* each item (archived items only if asked for): with the counts and the
\* cost of the item's count row for that store and month if there is one
\* (whatever the item costs now), otherwise with four zero counts and the
\* item's current cost.
C16_ListingSnapshot ==
    last.op = "get_all_inventory" /\ last.month # <<>> /\ last.store # <<>> =>
        /\ C16_OnePerItem
        /\ \A n \in 1..Len(last.items) :
              LET r == last.items[n]
                  k == CountRow(db, r.id, last.store, last.month)
                  c == db.inventory_counts[k]
              IN  IF k # 0
                  THEN /\ r.cost = c.cost
                       /\ r.count1 = C16_Count(c.count1)
                       /\ r.count2 = C16_Count(c.count2)
                       /\ r.count3 = C16_Count(c.count3)
                       /\ r.count4 = C16_Count(c.count4)
                  ELSE /\ r.cost = db.inventory_items[r.id].cost
                       /\ r.count1 = 0 /\ r.count2 = 0
                       /\ r.count3 = 0 /\ r.count4 = 0

\* C16 amended: the listing of a month and a store holds one record for
\* each item (archived items only if asked for): with the counts of the
\* item's count row for that store and month if there is one, a NULL count
\* as 0, and the row's cost, or the item's current cost when the row's cost
\* is NULL; otherwise with four zero counts and the item's current cost.
C16_Listing ==
    last.op = "get_all_inventory" /\ last.month # <<>> /\ last.store # <<>> =>
        /\ C16_OnePerItem
        /\ \A n \in 1..Len(last.items) :
              LET r == last.items[n]
                  k == CountRow(db, r.id, last.store, last.month)
                  c == db.inventory_counts[k]
              IN  IF k # 0
                  THEN /\ r.cost = IF c.cost # NULL THEN c.cost
                                   ELSE db.inventory_items[r.id].cost
                       /\ r.count1 = C16_Count(c.count1)
                       /\ r.count2 = C16_Count(c.count2)
                       /\ r.count3 = C16_Count(c.count3)
                       /\ r.count4 = C16_Count(c.count4)
                  ELSE /\ r.cost = db.inventory_items[r.id].cost
                       /\ r.count1 = 0 /\ r.count2 = 0
                       /\ r.count3 = 0 /\ r.count4 = 0

\* A month and store were listed: a record holds the cost 2.50 of the
\* item's count row while the item itself costs 1.25
C16_Witness ==
    /\ last.op = "get_all_inventory" /\ last.month = Month1 /\ last.store = TxtInman
    /\ \E n \in 1..Len(last.items) :
          /\ last.items[n].cost = 2500
          /\ last.items[n].current_cost = 1250
          /\ last.items[n].count4 = 2000
          /\ CountRow(db, last.items[n].id, TxtInman, Month1) # 0

(* Price item locations: price items are added, edited and deleted with   *)
(* lists of location names, and locations are renamed and removed.         *)
LocationInputs ==
    [item : {TxtTea}, supplier : {TxtAcme}, purchase_unit : {TxtPack},
     units_per_inv : {2000}, current_price : {2500},
     locations : {<<>>, <<LocBack>>, <<LocCab, <<>>, LocBack, LocCab>>},
     location : {<<>>}, month : {<<>>}]
NextLocations ==
    \/ \E data \in LocationInputs : AddPriceItem(data)
    \/ \E id \in PriceIds, data \in LocationInputs : EditPriceItem(id, data)
    \/ \E id \in PriceIds : DeletePriceItem(id)
    \/ \E id \in 1..MaxSequence, raw \in {LocCab, TxtFarm} :
          RenameEntry("locations", id, raw)
    \/ \E id \in 1..MaxSequence :
          db.location_seq < MaxSequence /\ RemoveEntry("locations", id)
SpecLocations == Init /\ [][NextLocations]_vars

\* The names of the locations the junction table gives price item id in d
C17_Names(d, id) ==
    {d.locations[q[2]] : q \in {x \in d.price_item_locations :
                                   x[1] = id /\ x[2] \in DOMAIN d.locations}}

\* C17: after an edit of a price item there is, the item's locations are
\* the names of the request's list that are not empty, and no other; each
\* of those names is the name of exactly one row of locations; every row
\* the junction table holds for the item refers to a location there is; and
\* every other price item has the junction rows it had.
C17_LocationsReplaced ==
    [][\A id \in PriceIds, data \in LocationInputs :
          id \in DOMAIN db.price_items /\ EditPriceItem(id, data) =>
             LET names == {data.locations[n] : n \in 1..Len(data.locations)} \ {<<>>}
             IN  /\ last'.status = 200
                 /\ C17_Names(db', id) = names
                 /\ \A x \in db'.price_item_locations :
                       x[1] = id => x[2] \in DOMAIN db'.locations
                 /\ \A name \in names :
                       Cardinality({l \in DOMAIN db'.locations :
                                       db'.locations[l] = name}) = 1
                 /\ {x \in db'.price_item_locations : x[1] # id}
                       = {x \in db.price_item_locations : x[1] # id}]_vars

\* An edit took a price item from the location back to none, while the
\* other price item still has back and cab
C17_Witness ==
    /\ last.op = "edit_price_item" /\ last.status = 200
    /\ last.had = {LocBack}
    /\ C17_Names(db, last.id) = {}
    /\ \E other \in DOMAIN db.price_items \ {last.id} :
          C17_Names(db, other) = {LocBack, LocCab}

(* Two edits of a price item side by side *)
EditInputs ==
    { [item |-> TxtTea, supplier |-> TxtAcme, purchase_unit |-> TxtPack,
       units_per_inv |-> 2000, current_price |-> 2500,
       locations |-> <<LocBack>>, location |-> <<>>, month |-> Month1],
      [item |-> TxtCafe, supplier |-> TxtFarm, purchase_unit |-> TxtEach,
       units_per_inv |-> 1000, current_price |-> 5000,
       locations |-> <<LocCab>>, location |-> <<>>, month |-> Month2] }
NextEdits ==
    \/ \E data \in EditInputs : AddPriceItem(data)
    \/ \E r \in Requests, id \in PriceIds, data \in EditInputs :
          EditUpdateRow(r, id, data)
    \/ \E r \in Requests : EditSetLocations(r)
    \/ \E r \in Requests : EditSelectUnits(r)
    \/ \E r \in Requests : EditWritePrice(r)
    \/ \E r \in Requests : EditAnswer(r)
SpecEdits == Init /\ [][NextEdits]_vars

\* The six columns of a price item that an edit writes
C18_Written(row) ==
    <<row.supplier, row.item, row.purchase_unit, row.units_per_inv,
      row.current_price, row.per_unit_cost>>

\* C18: when two edits of the same price item have both been answered 200,
\* whatever the order their transactions ran in, the row's supplier, item,
\* purchase unit, units per inventory unit, current price and per-unit cost
\* are all those of one of the two requests.
C18_LastWriteWins ==
    (/\ \A r \in Requests : edits[r].pc = "done" /\ edits[r].updated
     /\ edits["a"].id = edits["b"].id
     /\ edits["a"].id \in DOMAIN db.price_items)
    => \E r \in Requests :
          C18_Written(db.price_items[edits[r].id])
             = C18_Written(PriceRow(edits[r].data, 0))

\* C19: a delete never removes an inventory item that a row of
\* inventory_counts refers to, whether the item is custom or not.
C19_CountedItemsStay ==
    [][\A id \in CountIds :
          (/\ DeleteInventoryItem(id)
           /\ id \in DOMAIN db.inventory_items
           /\ \E k \in 1..Len(db.inventory_counts) :
                 db.inventory_counts[k].inventory_item_id = id)
          => id \in DOMAIN db'.inventory_items]_vars

\* C19, for the items that are not custom: the delete leaves them, with
\* their count rows, and answers 404.
C19_SeededCountedItemsStay ==
    [][\A id \in CountIds :
          (/\ DeleteInventoryItem(id)
           /\ id \in DOMAIN db.inventory_items
           /\ db.inventory_items[id].is_custom # 1
           /\ \E k \in 1..Len(db.inventory_counts) :
                 db.inventory_counts[k].inventory_item_id = id)
          => db' = db /\ last'.status = 404]_vars

\* What a call that created the custom item id leaves: the item is new, its
\* custom flag is set, its counts are zero and every other item is as it was
C20_Created(id) ==
    /\ last'.status = 201
    /\ id \notin DOMAIN db.inventory_items
    /\ id \in DOMAIN db'.inventory_items
    /\ db'.inventory_items[id].is_custom = 1
    /\ \A c \in {"count1", "count2", "count3", "count4"} :
          db'.inventory_items[id][c] = 0
    /\ \A other \in DOMAIN db.inventory_items :
          /\ other \in DOMAIN db'.inventory_items
          /\ db'.inventory_items[other] = db.inventory_items[other]

\* C20: every call that adds a custom item with a name creates a new item
\* under an id no stored item has, custom and with zero counts, and leaves
\* the stored items as they were, also when the clock has not moved since
\* the call before; no call fails.
C20_AlwaysCreates ==
    [][\A data \in CustomInputs :
          AddInventoryItem(data) /\ data.item # <<>> => C20_Created(last'.id)]_vars

\* C20, for the calls that read a clock value no stored custom item was
\* made at
C20_CreatesAtNewTime ==
    [][\A data \in CustomInputs :
          (/\ AddInventoryItem(data) /\ data.item # <<>>
           /\ last'.id \notin DOMAIN db.inventory_items)
          => C20_Created(last'.id)]_vars

\* The inventory items whose row a step changed
C21_Changed == {i \in DOMAIN db.inventory_items :
                   db'.inventory_items[i] # db.inventory_items[i]}

\* The price items whose name matches inventory item i
C21_Matching(i) ==
    {p \in DOMAIN db.price_items : i \in SyncMatches(db, PyLower(db.price_items[p].item))}

\* C21 as stated: the number a sync returns is the number of inventory
\* items it changed, and is never more than the number of inventory items.
C21_DistinctItems ==
    [][last'.op = "sync_prices" =>
          /\ last'.updated = Cardinality(C21_Changed)
          /\ last'.updated <= Cardinality(DOMAIN db.inventory_items)]_vars

\* C21, amended: the number a sync returns counts overwrites.  It is at
\* least the number of inventory items the sync changed and at most the
\* number of (price item, matching inventory item) pairs; it is the number
\* of items changed when no inventory item matches two price items.
C21_CountsOverwrites ==
    [][last'.op = "sync_prices" =>
          LET pairs == {q \in (DOMAIN db.price_items) \X (DOMAIN db.inventory_items) :
                           q[1] \in C21_Matching(q[2])}
          IN  /\ last'.updated >= Cardinality(C21_Changed)
              /\ last'.updated <= Cardinality(pairs)
              /\ (\A i \in DOMAIN db.inventory_items :
                     Cardinality(C21_Matching(i)) <= 1)
                    => last'.updated = Cardinality(C21_Changed)]_vars

\* A sync of one inventory item answered that it updated two
C21_Witness ==
    /\ last.op = "sync_prices" /\ last.updated = 2
    /\ Cardinality(DOMAIN db.inventory_items) = 1

\* C22: the archiving of a price item changes no other price item, and no
\* inventory item whose name is not the price item's name when the case of
\* letters is set aside; the archiving of an inventory item changes no
\* price item and no other inventory item; an archiving under an id that
\* is not there changes nothing.
C22_ArchiveFrame ==
    [][/\ last'.op = "archive_price_item" =>
             IF last'.id \notin DOMAIN db.price_items THEN db' = db
             ELSE /\ \A p \in DOMAIN db.price_items \ {last'.id} :
                        /\ p \in DOMAIN db'.price_items
                        /\ db'.price_items[p] = db.price_items[p]
                  /\ DOMAIN db'.inventory_items = DOMAIN db.inventory_items
                  /\ \A i \in DOMAIN db.inventory_items :
                        PyLower(db.inventory_items[i].item)
                            # PyLower(db.price_items[last'.id].item)
                        => db'.inventory_items[i] = db.inventory_items[i]
       /\ last'.op = "archive_inventory_item" =>
             IF last'.id \notin DOMAIN db.inventory_items THEN db' = db
             ELSE /\ db'.price_items = db.price_items
                  /\ DOMAIN db'.inventory_items = DOMAIN db.inventory_items
                  /\ \A i \in DOMAIN db.inventory_items \ {last'.id} :
                        db'.inventory_items[i] = db.inventory_items[i]
                  /\ db'.inventory_items[last'.id]
                        = [db.inventory_items[last'.id] EXCEPT
                             !.archived = IF last'.archive THEN 1 ELSE 0]]_vars

\* A price item was archived: the other price item of the same name is not
\* archived, the inventory item of that name is, the one of another name
\* is not
C22_Witness ==
    /\ last.op = "archive_price_item" /\ last.archive /\ last.ret.found
    /\ db.price_items[last.id].archived = 1
    /\ \E p \in DOMAIN db.price_items \ {last.id} :
          /\ db.price_items[p].item = db.price_items[last.id].item
          /\ db.price_items[p].archived = 0
    /\ \E i, j \in DOMAIN db.inventory_items :
          /\ PyLower(db.inventory_items[i].item) = PyLower(last.name)
          /\ db.inventory_items[i].archived = 1
          /\ PyLower(db.inventory_items[j].item) # PyLower(last.name)
          /\ db.inventory_items[j].archived = 0

(* The inventory sheet: items of two suppliers and of none are counted in  *)
(* halves and wholes, archived, and the month is exported.                 *)
ExportCustomInputs ==
    [supplier : {TxtAcme, <<>>}, location : {<<>>}, item : {TxtTea},
     unit : {TxtEach}, cost : {250}]
ExportCounts ==
    [supplier : {TxtAcme, <<>>}, location : {<<>>}, item : {TxtTea}, unit : {TxtEach},
     cost : {250}, count1 : {0, 500, 3000}, count2 : {0}, count3 : {0},
     count4 : {0}]
NextExport ==
    \/ \E data \in ExportCustomInputs : AddInventoryItem(data)
    \/ \E id \in PriceIds, data \in ExportCounts, store \in CountStores :
          UpdateInventoryItem(id, data, Month1, store)
    \/ \E id \in PriceIds, archive \in BOOLEAN : ArchiveInventoryItem(id, archive)
    \/ ExportInventory(Month1)
SpecExport == Init /\ [][NextExport]_vars

\* The items an export of last.month is to list: not archived, with a count
\* row of that month that holds a count other than zero
C23_Counted ==
    {i \in DOMAIN db.inventory_items :
        /\ db.inventory_items[i].archived = 0
        /\ \E k \in 1..Len(db.inventory_counts) :
              /\ db.inventory_counts[k].inventory_item_id = i
              /\ db.inventory_counts[k].month = last.month
              /\ AnyCount([count1 |-> Or0(db.inventory_counts[k].count1),
                           count2 |-> Or0(db.inventory_counts[k].count2),
                           count3 |-> Or0(db.inventory_counts[k].count3),
                           count4 |-> Or0(db.inventory_counts[k].count4)])}

\* The groups of the sheet in which item i has a row
C23_GroupsOf(i) ==
    {g \in 1..Len(last.sheet.groups) :
        \E n \in 1..Len(last.sheet.groups[g].rows) :
           last.sheet.groups[g].rows[n].id = i}

RECURSIVE C23_Sum(_, _)
C23_Sum(f, n) == IF n = 0 THEN 0 ELSE f[n] + C23_Sum(f, n - 1)

\* Every counted item is in one group, that of its supplier, the items of
\* no supplier in that of the key "No Supplier"
C23_OneGroup ==
    \A i \in C23_Counted :
       /\ Cardinality(C23_GroupsOf(i)) = 1
       /\ \A g \in C23_GroupsOf(i) :
             last.sheet.groups[g].supplier
                = IF db.inventory_items[i].supplier \in {<<>>, NoText}
                  THEN <<"N", "o", " ", "S", "u", "p", "p", "l", "i", "e", "r">>
                  ELSE db.inventory_items[i].supplier

C23_Within(x, y, n) == 2 * (x - y) <= n + 1 /\ 2 * (y - x) <= n + 1

C24_Counts(rec) == <<rec.count1, rec.count2, rec.count3, rec.count4>>

\* C24: after an upsert of counts for a month on an inventory item there
\* is, the record get_inventory_item gives for the same id, month and store
\* (the record the call returns) carries the four counts of the request,
\* whether a store was given or not.
C24_ReadYourWrite ==
    [][\A id \in CountIds, data \in CountInputs, store \in CountStores :
          (/\ UpdateInventoryItem(id, data, Month1, store)
           /\ id \in DOMAIN db.inventory_items)
          => LET rec == get_inventory_item(db', id, Month1, store)
             IN  /\ rec # <<>>
                 /\ C24_Counts(rec[1]) = C24_Counts(data)]_vars

\* C24, for the requests that name the store
C24_ReadYourWriteInStore ==
    [][\A id \in CountIds, data \in CountInputs, store \in CountStores \ {<<>>} :
          (/\ UpdateInventoryItem(id, data, Month1, store)
           /\ id \in DOMAIN db.inventory_items)
          => LET rec == get_inventory_item(db', id, Month1, store)
             IN  /\ rec # <<>>
                 /\ C24_Counts(rec[1]) = C24_Counts(data)]_vars

(* Sync after sync: the seed holds one inventory item and three price      *)
(* items of its name whose per-unit costs lie a thousandth or two apart.   *)
ResyncInventory ==
    <<[id |-> 101, supplier |-> TxtAcme, item |-> TxtTea, unit |-> TxtEach,
       cost |-> 1, count1 |-> 0, count2 |-> 0, count3 |-> 0, count4 |-> 0,
       is_custom |-> 0]>>
ResyncPrice(id, perUnitCost) ==
    [id |-> id, location |-> <<>>, supplier |-> TxtAcme, item |-> TxtTea,
     purchaseUnit |-> TxtPack, unitsPerInv |-> 2000, currentPrice |-> 1000,
     perUnitCost |-> perUnitCost,
     priceHistory |-> <<[month |-> Month1, price |-> 1000]>>]
ResyncPrices == <<ResyncPrice(101, 0), ResyncPrice(102, 2), ResyncPrice(103, 3)>>
ResyncInputs ==
    [supplier : {TxtAcme, TxtFarm}, location : {<<>>}, item : {TxtTea},
     unit : {TxtEach}, cost : {1, 2, 1250}, count1 : {0}, count2 : {0}, count3 : {0},
     count4 : {0}]
NextResync ==
    \/ Main(ResyncInventory, ResyncPrices)
    \/ \E data \in ResyncInputs : UpdateInventoryItem(101, data, <<>>, <<>>)
    \/ \E id \in {101, 102, 103} : DeletePriceItem(id)
    \/ SyncPrices
SpecResync == Init /\ [][NextResync]_vars

\* C25: a sync that follows a sync at once, and is given the price items
\* in the same order, leaves every inventory item as the first left it.
C25_SyncTwice ==
    [][(/\ last.op = "sync_prices" /\ last'.op = "sync_prices"
        /\ last'.order = last.order)
       => db'.inventory_items = db.inventory_items]_vars

\* C25, where the per-unit costs of the price items are whole cents
C25_SyncTwiceAtCents ==
    [][(/\ last.op = "sync_prices" /\ last'.op = "sync_prices"
        /\ last'.order = last.order
        /\ \A p \in DOMAIN db.price_items :
              db.price_items[p].per_unit_cost # NULL
              /\ db.price_items[p].per_unit_cost % 10 = 0)
       => db'.inventory_items = db.inventory_items]_vars

(* What a sync leaves alone: price items with history rows and locations,  *)
(* inventory items with count rows, archived or not.                       *)
FrameInputs ==
    [item : {TxtTeaUpper}, supplier : {TxtAcme, TxtFarm}, purchase_unit : {TxtPack},
     units_per_inv : {2000}, current_price : {2500},
     locations : {<<>>, <<LocBack>>}, location : {<<>>}, month : {Month1}]
FrameCounts ==
    [supplier : {TxtAcme}, location : {<<>>}, item : {TxtTea}, unit : {TxtEach},
     cost : {2500}, count1 : {1000}, count2 : {0}, count3 : {0}, count4 : {0}]
NextFrame ==
    \/ \E data \in FrameInputs : AddPriceItem(data)
    \/ \E data \in ArchiveCustomInputs : AddInventoryItem(data)
    \/ \E id \in PriceIds, data \in FrameCounts, store \in CountStores :
          UpdateInventoryItem(id, data, Month1, store)
    \/ \E id \in PriceIds, archive \in BOOLEAN : ArchiveInventoryItem(id, archive)
    \/ SyncPrices
SpecFrame == Init /\ [][NextFrame]_vars

\* C26: a sync changes nothing but the cost, supplier and location of
\* inventory items: the count rows, the price items, the price history, the
\* location associations and every other table stay as they were, no
\* inventory item comes or goes, and each keeps its name, unit, counts and
\* its archived and custom flags.
C26_SyncFrame ==
    [][last'.op = "sync_prices" =>
          /\ [db' EXCEPT !.inventory_items = db.inventory_items] = db
          /\ DOMAIN db'.inventory_items = DOMAIN db.inventory_items
          /\ \A i \in DOMAIN db.inventory_items :
                [db'.inventory_items[i] EXCEPT
                    !.cost = db.inventory_items[i].cost,
                    !.supplier = db.inventory_items[i].supplier,
                    !.location = db.inventory_items[i].location]
                  = db.inventory_items[i]]_vars

\* A sync overwrote an archived inventory item that has a count row with a
\* cost snapshot other than the new cost, in a ledger with history rows and
\* location associations
C26_Witness ==
    /\ last.op = "sync_prices" /\ last.updated > 0
    /\ db.price_history # <<>>
    /\ db.price_item_locations # {}
    /\ \E i \in DOMAIN db.inventory_items, k \in DOMAIN db.inventory_counts :
          /\ db.inventory_items[i].archived = 1
          /\ db.inventory_items[i].location = LocBack
          /\ db.inventory_counts[k].inventory_item_id = i
          /\ db.inventory_counts[k].cost # db.inventory_items[i].cost

\* C27: a write of counts under an id that no inventory item has is
\* answered 404 and leaves every table as it was.
C27_UnknownIdUnchanged ==
    [][\A id \in CountIds, data \in CountInputs, month \in {<<>>, Month1},
         store \in CountStores :
          (/\ UpdateInventoryItem(id, data, month, store)
           /\ id \notin DOMAIN db.inventory_items)
          => last'.status = 404 /\ db' = db]_vars

\* C27, for what such a write does leave alone: it is answered 404 and
\* every table but inventory_counts is as it was; with no month in the
\* body inventory_counts is too.
C27_UnknownIdNotFound ==
    [][\A id \in CountIds, data \in CountInputs, month \in {<<>>, Month1},
         store \in CountStores :
          (/\ UpdateInventoryItem(id, data, month, store)
           /\ id \notin DOMAIN db.inventory_items)
          => /\ last'.status = 404
             /\ [db' EXCEPT !.inventory_counts = db.inventory_counts] = db
             /\ month = <<>> => db' = db]_vars

(* The price ledger with its locations and its history *)
LedgerInputs ==
    [item : {TxtTea}, supplier : {TxtAcme}, purchase_unit : {TxtPack},
     units_per_inv : {2000}, current_price : {2500},
     locations : {<<>>, <<LocBack>>}, location : {<<>>}, month : {<<>>, Month1}]
NextLedger ==
    \/ \E data \in LedgerInputs : AddPriceItem(data)
    \/ \E id \in PriceIds, data \in LedgerInputs : EditPriceItem(id, data)
    \/ \E id \in PriceIds : UpdatePrice(id, Month2, 125)
    \/ \E id \in PriceIds : DeletePriceItem(id)
    \/ AddEntry("locations", LocCab)
    \/ \E id \in 1..MaxSequence : RenameEntry("locations", id, LocCab)
    \/ \E id \in 1..MaxSequence :
          db.location_seq < MaxSequence /\ RemoveEntry("locations", id)
SpecLedger == Init /\ [][NextLedger]_vars

\* C28: every row of price_item_locations has the id of a price item and
\* the id of a location that are there, and every row of price_history has
\* the id of a price item that is there.
C28_LedgerIntegrity ==
    /\ \A q \in db.price_item_locations :
          q[1] \in DOMAIN db.price_items /\ q[2] \in DOMAIN db.locations
    /\ \A k \in 1..Len(db.price_history) :
          db.price_history[k].price_item_id \in DOMAIN db.price_items

\* C28, the part that holds: every row of price_item_locations has the id
\* of a price item that is there.
C28_AssociationsHaveItem ==
    \A q \in db.price_item_locations : q[1] \in DOMAIN db.price_items

\* C28, the locations alone
C28_AssociationsHaveLocation ==
    \A q \in db.price_item_locations : q[2] \in DOMAIN db.locations

\* C28, the history alone
C28_HistoryHasItem ==
    \A k \in 1..Len(db.price_history) :
        db.price_history[k].price_item_id \in DOMAIN db.price_items
====
